---- MODULE Spec2Model ----
(***************************************************************************)
(* Game Boy (DMG) emulator core: CPU (src/src/cpu.rs), memory bus          *)
(* (src/src/memory.rs), timer (src/src/timer.rs), serial (src/src/serial.rs)*)
(* and the PPU register file (src/src/ppu.rs).                             *)
(*                                                                         *)
(* The CPU and the bus are records; every handler of the source is an      *)
(* operator from a state pair [c |-> cpu, m |-> memory] to a state pair.   *)
(* The byte arrays (main memory, ROM, VRAM, OAM) are zero-initialised in   *)
(* the source and are kept as finite maps holding the non-zero bytes.      *)
(***************************************************************************)
EXTENDS Integers, Sequences, FiniteSets, TLC

VARIABLES
    cpu,        \* the Cpu struct
    mem,        \* the Memory struct with the peripherals it owns
    phase,      \* position in the driver loop: "step", "tick", "irq"; "timer" when only the timer is driven
    tick_left,  \* iterations left in the T-cycle loop of a running Timer::tick
    calls,      \* calls made so far
    last        \* the last call: its name, arguments, return value and the state it started from

vars == <<cpu, mem, phase, tick_left, calls, last>>

----------------------------------------------------------------------------
(* Bounds of the exploration.                                              *)

\* iterations of the driver loop per behaviour
MaxSteps == 3

\* timer calls (tick / write) per behaviour of the timer specification
MaxTimerCalls == 6

\* largest m_cycles argument handed to Timer::tick in the timer specification
MaxTickM == 2

----------------------------------------------------------------------------
(* Fixed-width integer helpers (u8 / u16 arithmetic of the source).        *)

RECURSIVE BitAnd(_, _)
BitAnd(a, b) ==
    IF a = 0 \/ b = 0 THEN 0
    ELSE (a % 2) * (b % 2) + 2 * BitAnd(a \div 2, b \div 2)

RECURSIVE BitOr(_, _)
BitOr(a, b) ==
    IF a = 0 THEN b
    ELSE IF b = 0 THEN a
    ELSE (IF (a % 2) + (b % 2) > 0 THEN 1 ELSE 0) + 2 * BitOr(a \div 2, b \div 2)

RECURSIVE BitXor(_, _)
BitXor(a, b) ==
    IF a = 0 THEN b
    ELSE IF b = 0 THEN a
    ELSE ((a + b) % 2) + 2 * BitXor(a \div 2, b \div 2)

\* bit k of x
Bit(x, k) == (x \div (2 ^ k)) % 2

\* u16 `+` / `-` of the source (release build: wraps)
add_u16(a, b) == (a + b) % 65536
sub_u16(a, b) == (a - b + 65536) % 65536

\* u8 wrapping_add / wrapping_sub
add_u8(a, b) == (a + b) % 256
sub_u8(a, b) == (a - b + 256) % 256

\* `x as i8` followed by sign extension
as_i8(x) == IF x >= 128 THEN x - 256 ELSE x

B2N(b) == IF b THEN 1 ELSE 0

\* zero-initialised byte array kept as a finite map of its non-zero bytes
Get(f, a) == IF a \in DOMAIN f THEN f[a] ELSE 0

Put(f, a, v) ==
    IF v = 0
    THEN IF a \in DOMAIN f THEN [x \in (DOMAIN f) \ {a} |-> f[x]] ELSE f
    ELSE (a :> v) @@ f

----------------------------------------------------------------------------
(* Timer (src/src/timer.rs).                                               *)

TimerNew ==
    [internal_counter |-> 43980, tima |-> 0, tma |-> 0, tac |-> 0,
     interrupt_pending |-> FALSE, overflow_cycles |-> 0,
     tima_overflow_value |-> 0]

get_timer_bit(t) ==
    CASE t.tac % 4 = 0 -> 9
      [] t.tac % 4 = 1 -> 3
      [] t.tac % 4 = 2 -> 5
      [] t.tac % 4 = 3 -> 7

get_timer_enable_bit(t) ==
    IF Bit(t.tac, 2) = 0 THEN FALSE
    ELSE Bit(t.internal_counter, get_timer_bit(t)) # 0

\* the falling-edge body: TIMA + 1, starting the reload delay on overflow
tima_increment(t) ==
    LET new_tima == (t.tima + 1) % 256
        overflow == t.tima = 255
    IN  IF overflow
        THEN [t EXCEPT !.overflow_cycles = 4,
                       !.tima_overflow_value = new_tima,
                       !.tima = new_tima]
        ELSE [t EXCEPT !.tima = new_tima]

reload_at_early(oc) == oc = 1

\* the reload fires when the decremented delay counter reaches zero
reload_at(oc) == oc = 0

\* one iteration of the T-cycle loop of Timer::tick
tick_cycle(t) ==
    IF t.overflow_cycles > 0
    THEN LET oc == t.overflow_cycles - 1
             t1 == IF reload_at(oc)
                   THEN [t EXCEPT !.tima = t.tma, !.interrupt_pending = TRUE]
                   ELSE t
         IN  [t1 EXCEPT !.overflow_cycles = oc,
                        !.internal_counter = (t.internal_counter + 1) % 65536]
    ELSE LET old_enable_bit == get_timer_enable_bit(t)
             t1 == [t EXCEPT !.internal_counter = (t.internal_counter + 1) % 65536]
             new_enable_bit == get_timer_enable_bit(t1)
         IN  IF old_enable_bit /\ ~new_enable_bit THEN tima_increment(t1) ELSE t1

\* n iterations of the loop body, the first n \div 2 before the rest (the
\* test on the fields holds of every timer; it has the first half evaluated
\* before the second starts)
RECURSIVE tick_loop(_, _)
tick_loop(t, n) ==
    IF n = 0 THEN t
    ELSE IF n = 1 THEN tick_cycle(t)
    ELSE LET t1 == tick_loop(t, n \div 2)
         IN  IF DOMAIN t1 = DOMAIN t THEN tick_loop(t1, n - (n \div 2)) ELSE t1

\* Timer::tick(m_cycles): 4 * m_cycles iterations of the loop
timer_tick(t, m_cycles) == tick_loop(t, m_cycles * 4)

\* a TAC read without the fixed upper bits
timer_read_raw_tac(t, address) ==
    CASE address = 65284 -> t.internal_counter \div 256
      [] address = 65285 -> t.tima
      [] address = 65286 -> t.tma
      [] address = 65287 -> t.tac
      [] OTHER -> 255

timer_read(t, address) ==
    CASE address = 65284 -> t.internal_counter \div 256
      [] address = 65285 -> t.tima
      [] address = 65286 -> t.tma
      [] address = 65287 -> BitOr(t.tac, 248)
      [] OTHER -> 255

div_reset_high_byte(old) == old % 256

\* value the internal counter takes on a DIV write
div_reset(old) == 0

write_tima_keeps_delay(t, value) == [t EXCEPT !.tima = value]

\* Writing TIMA: cancels a running reload delay
write_tima(t, value) ==
    LET t1 == [t EXCEPT !.tima = value]
    IN  IF t1.overflow_cycles > 0 THEN [t1 EXCEPT !.overflow_cycles = 0] ELSE t1

timer_write(t, address, value) ==
    CASE address = 65284 ->
            LET old_enable_bit == get_timer_enable_bit(t)
                t1 == [t EXCEPT !.internal_counter = div_reset(t.internal_counter)]
                new_enable_bit == get_timer_enable_bit(t1)
            IN  IF old_enable_bit /\ ~new_enable_bit THEN tima_increment(t1) ELSE t1
      [] address = 65285 -> write_tima(t, value)
      [] address = 65286 -> [t EXCEPT !.tma = value]
      [] address = 65287 ->
            LET old_enable_bit == get_timer_enable_bit(t)
                t1 == [t EXCEPT !.tac = value % 8]
                new_enable_bit == get_timer_enable_bit(t1)
            IN  IF old_enable_bit /\ ~new_enable_bit THEN tima_increment(t1) ELSE t1
      [] OTHER -> t

----------------------------------------------------------------------------
(* Serial (src/src/serial.rs).                                             *)

SerialNew ==
    [sb |-> 0, sc |-> 0, interrupt_pending |-> FALSE, output_buffer |-> <<>>]

serial_read(s, address) ==
    CASE address = 65281 -> s.sb
      [] address = 65282 -> BitOr(s.sc, 126)
      [] OTHER -> 255

\* a serial port that completes the transfer at once
serial_write_completes(s, address, value) ==
    CASE address = 65281 -> [s EXCEPT !.sb = value]
      [] address = 65282 ->
            IF BitAnd(value, 128) # 0
            THEN [s EXCEPT !.sc = BitOr(BitAnd(value, 1), 126), !.sb = 255,
                           !.interrupt_pending = TRUE]
            ELSE [s EXCEPT !.sc = BitOr(BitAnd(value, 129), 126)]
      [] OTHER -> s

serial_write(s, address, value) ==
    CASE address = 65281 -> [s EXCEPT !.sb = value]
      [] address = 65282 ->
            LET s1 == [s EXCEPT !.sc = BitOr(BitAnd(value, 129), 126)]
            IN  IF BitAnd(value, 128) # 0 /\ s1.sb # 0 /\ s1.sb # 85
                THEN [s1 EXCEPT !.output_buffer = Append(s1.output_buffer, s1.sb)]
                ELSE s1
      [] OTHER -> s

----------------------------------------------------------------------------
(* PPU register file (src/src/ppu.rs).                                     *)

PpuNew ==
    [vram |-> <<>>, oam |-> <<>>,
     lcdc |-> 145, stat |-> 2, scy |-> 0, scx |-> 0, ly |-> 0, lyc |-> 0,
     bgp |-> 252, obp0 |-> 255, obp1 |-> 255, wy |-> 0, wx |-> 0,
     mode_cycles |-> 0, vblank_interrupt |-> FALSE, stat_interrupt |-> FALSE,
     window_line_counter |-> 0, prev_lcd_enabled |-> TRUE]

\* a set_mode that does not compare with the old mode
set_mode_unconditional(p, mode) ==
    LET p1 == [p EXCEPT !.stat = (p.stat - (p.stat % 4)) + (mode % 4)]
    IN  IF mode \in {0, 1, 2} /\ Bit(p1.stat, 3 + mode) # 0
        THEN [p1 EXCEPT !.stat_interrupt = TRUE]
        ELSE p1

\* modes: 0 HBLANK, 1 VBLANK, 2 OAM_SCAN, 3 DRAWING
set_mode(p, mode) ==
    LET old_mode == p.stat % 4
        p1 == [p EXCEPT !.stat = (p.stat - old_mode) + (mode % 4)]
        should_interrupt ==
            CASE mode = 0 -> Bit(p1.stat, 3) # 0
              [] mode = 1 -> Bit(p1.stat, 4) # 0
              [] mode = 2 -> Bit(p1.stat, 5) # 0
              [] OTHER -> FALSE
    IN  IF should_interrupt /\ old_mode # mode
        THEN [p1 EXCEPT !.stat_interrupt = TRUE]
        ELSE p1

ppu_read(p, address) ==
    CASE address = 65344 -> p.lcdc
      [] address = 65345 -> p.stat
      [] address = 65346 -> p.scy
      [] address = 65347 -> p.scx
      [] address = 65348 -> p.ly
      [] address = 65349 -> p.lyc
      [] address = 65351 -> p.bgp
      [] address = 65352 -> p.obp0
      [] address = 65353 -> p.obp1
      [] address = 65354 -> p.wy
      [] address = 65355 -> p.wx
      [] OTHER -> 255

\* a register file in which LY can be written
ppu_write_ly_writable(p, address, value) ==
    IF address = 65348 THEN [p EXCEPT !.ly = value] ELSE p

ppu_write(p, address, value) ==
    CASE address = 65344 ->
            LET lcd_was_off == Bit(p.lcdc, 7) = 0
                p1 == [p EXCEPT !.lcdc = value]
                lcd_is_on == Bit(value, 7) # 0
            IN  IF lcd_was_off /\ lcd_is_on
                THEN set_mode([p1 EXCEPT !.ly = 0, !.mode_cycles = 0], 2)
                ELSE p1
      [] address = 65345 -> [p EXCEPT !.stat = (p.stat % 8) + BitAnd(value, 248)]
      [] address = 65346 -> [p EXCEPT !.scy = value]
      [] address = 65347 -> [p EXCEPT !.scx = value]
      [] address = 65349 -> [p EXCEPT !.lyc = value]
      [] address = 65351 -> [p EXCEPT !.bgp = value]
      [] address = 65352 -> [p EXCEPT !.obp0 = value]
      [] address = 65353 -> [p EXCEPT !.obp1 = value]
      [] address = 65354 -> [p EXCEPT !.wy = value]
      [] address = 65355 -> [p EXCEPT !.wx = value]
      [] OTHER -> p

\* Ppu::set_ly: LY and the LYC = LY coincidence flag of STAT
set_ly(p, value) ==
    IF value = p.lyc
    THEN [p EXCEPT !.ly = value,
                   !.stat = BitOr(p.stat, 4),
                   !.stat_interrupt = p.stat_interrupt \/ Bit(p.stat, 6) # 0]
    ELSE [p EXCEPT !.ly = value, !.stat = p.stat - 4 * Bit(p.stat, 2)]

\* a window line counter that follows LY - WY
render_scanline_by_ly(p) ==
    IF p.ly < 144 /\ Bit(p.lcdc, 5) # 0 /\ Bit(p.lcdc, 0) # 0
       /\ p.ly >= p.wy /\ p.wx - 7 < 160
    THEN [p EXCEPT !.window_line_counter = p.ly - p.wy + 1]
    ELSE p

\* Ppu::render_scanline on the fields kept here (the frame buffer is not
\* part of the state): a visible line with the window and the background
\* enabled, LY >= WY and WX - 7 < 160 draws window pixels and advances the
\* window line counter
render_scanline(p) ==
    IF p.ly < 144 /\ Bit(p.lcdc, 5) # 0 /\ Bit(p.lcdc, 0) # 0
       /\ p.ly >= p.wy /\ p.wx - 7 < 160
    THEN [p EXCEPT !.window_line_counter = (p.window_line_counter + 1) % 256]
    ELSE p

\* the arm of Ppu::step for the mode of STAT, mode_cycles already advanced
step_mode(p) ==
    CASE p.stat % 4 = 2 /\ p.mode_cycles >= 80 ->
            set_mode([p EXCEPT !.mode_cycles = p.mode_cycles - 80], 3)
      [] p.stat % 4 = 3 /\ p.mode_cycles >= 172 ->
            render_scanline(set_mode([p EXCEPT !.mode_cycles = p.mode_cycles - 172], 0))
      [] p.stat % 4 = 0 /\ p.mode_cycles >= 204 ->
            IF p.ly + 1 = 144
            THEN [set_mode(set_ly([p EXCEPT !.mode_cycles = p.mode_cycles - 204], 144), 1)
                    EXCEPT !.vblank_interrupt = TRUE, !.window_line_counter = 0]
            ELSE IF p.ly + 1 < 144
            THEN set_mode(set_ly([p EXCEPT !.mode_cycles = p.mode_cycles - 204], p.ly + 1), 2)
            ELSE set_ly([p EXCEPT !.mode_cycles = p.mode_cycles - 204], (p.ly + 1) % 256)
      [] p.stat % 4 = 1 /\ p.mode_cycles >= 456 ->
            IF (p.ly + 1) % 256 > 153
            THEN set_mode(set_ly(set_ly([p EXCEPT !.mode_cycles = p.mode_cycles - 456],
                                        (p.ly + 1) % 256), 0), 2)
            ELSE set_ly([p EXCEPT !.mode_cycles = p.mode_cycles - 456], (p.ly + 1) % 256)
      [] OTHER -> p

\* a step that drops the cycles left over at a mode change
ppu_step_no_carry(p, cycles) ==
    IF Bit(p.lcdc, 7) = 0
    THEN p
    ELSE LET q == step_mode([p EXCEPT !.prev_lcd_enabled = TRUE,
                                      !.mode_cycles = p.mode_cycles + cycles])
         IN  IF q.stat % 4 # p.stat % 4 THEN [q EXCEPT !.mode_cycles = 0] ELSE q

\* a step that raises the VBlank latch whenever LY changes
ppu_step_latch_each_line(p, cycles) ==
    IF Bit(p.lcdc, 7) = 0
    THEN p
    ELSE LET q == step_mode([p EXCEPT !.prev_lcd_enabled = TRUE,
                                      !.mode_cycles = p.mode_cycles + cycles])
         IN  IF q.ly # p.ly THEN [q EXCEPT !.vblank_interrupt = TRUE] ELSE q

\* Ppu::step: the PPU after the given cycles
ppu_step(p, cycles) ==
    IF Bit(p.lcdc, 7) = 0
    THEN IF p.prev_lcd_enabled
         THEN [p EXCEPT !.ly = 0, !.mode_cycles = 0, !.prev_lcd_enabled = FALSE]
         ELSE p
    ELSE step_mode([p EXCEPT !.prev_lcd_enabled = TRUE,
                             !.mode_cycles = p.mode_cycles + cycles])

----------------------------------------------------------------------------
(* Sprites of one scanline (Ppu::render_sprites_line, src/src/ppu.rs).     *)
(* A line of the frame buffer is a finite map from the screen x to the     *)
(* index in COLORS of the colour stored there; bg is the line of           *)
(* bg_color_index, 0 where it has no entry.                                *)

\* the sprites selected for the line: the first 10 in OAM order that cover it
sprites_on_line(p, ly) ==
    LET obj_size == IF Bit(p.lcdc, 2) # 0 THEN 16 ELSE 8
        hit == {i \in 0..39 : /\ ly >= Get(p.oam, i * 4) - 16
                              /\ ly < Get(p.oam, i * 4) - 16 + obj_size}
    IN  {i \in hit : Cardinality({j \in hit : j < i}) < 10}

\* the pixels sprite i stores on the line: for each of its 8 pixels that is
\* not transparent, is on the screen and is not behind the background, the
\* colour of its palette
sprite_pixels(p, bg, ly, i) ==
    LET obj_size == IF Bit(p.lcdc, 2) # 0 THEN 16 ELSE 8
        sprite_y == Get(p.oam, i * 4) - 16
        sprite_x == Get(p.oam, i * 4 + 1) - 8
        attr == Get(p.oam, i * 4 + 3)
        tile == IF obj_size = 16
                THEN BitAnd(Get(p.oam, i * 4 + 2), 254) ELSE Get(p.oam, i * 4 + 2)
        y == (ly - sprite_y) % 256
        y_eff == IF Bit(attr, 6) # 0 THEN (obj_size - 1) - y ELSE y
        tile_offset == (tile + (y_eff \div 8)) * 16 + (y_eff % 8) * 2
        byte1 == Get(p.vram, tile_offset)
        byte2 == Get(p.vram, tile_offset + 1)
        bit_index(px) == IF Bit(attr, 5) # 0 THEN px ELSE 7 - px
        color_id(px) == 2 * Bit(byte2, bit_index(px)) + Bit(byte1, bit_index(px))
        palette_byte == IF Bit(attr, 4) # 0 THEN p.obp1 ELSE p.obp0
        drawn == {px \in 0..7 :
                     /\ color_id(px) # 0
                     /\ sprite_x + px \in 0..159
                     /\ ~(Bit(attr, 7) # 0 /\ Get(bg, sprite_x + px) # 0)}
    IN  IF tile_offset + 1 >= 8192
        THEN <<>>
        ELSE [x \in {sprite_x + px : px \in drawn} |->
                 (palette_byte \div (4 ^ color_id(x - sprite_x))) % 4]

\* the drawing loop from sprite i on: each selected sprite stores its pixels
\* in the frame buffer in turn, in OAM order
RECURSIVE draw_sprites(_, _, _, _, _)
draw_sprites(fb, p, bg, ly, i) ==
    IF i > 39 THEN fb
    ELSE IF i \in sprites_on_line(p, ly)
    THEN draw_sprites(sprite_pixels(p, bg, ly, i) @@ fb, p, bg, ly, i + 1)
    ELSE draw_sprites(fb, p, bg, ly, i + 1)

render_sprites_line(fb, p, bg, ly) == draw_sprites(fb, p, bg, ly, 0)

----------------------------------------------------------------------------
(* Joypad (src/src/joypad.rs).                                             *)

\* the buttons on bits 0..3 of P1: the button keys and the direction keys
ButtonKeys == <<"A", "B", "Select", "Start">>
DirectionKeys == <<"Right", "Left", "Up", "Down">>

JoypadNew ==
    [buttons |-> [b \in {"Right", "Left", "Up", "Down", "A", "B", "Select", "Start"} |-> FALSE],
     register |-> 207,
     interrupt_requested |-> FALSE]

\* Joypad::update_register
update_register(j) ==
    LET select_buttons == Bit(j.register, 5) = 0
        select_directions == Bit(j.register, 4) = 0
        value == BitOr(BitAnd(j.register, 240), 192)
        low(k) == IF (select_buttons /\ j.buttons[ButtonKeys[k + 1]])
                     \/ (select_directions /\ j.buttons[DirectionKeys[k + 1]])
                  THEN 0 ELSE 2 ^ k
    IN  IF ~select_buttons /\ ~select_directions
        THEN [j EXCEPT !.register = BitOr(BitOr(value, 15), 192)]
        ELSE [j EXCEPT !.register = BitOr(BitOr(value, low(0) + low(1) + low(2) + low(3)), 192)]

\* a press that raises the latch whatever P1 selects
press_any_group(j, button) ==
    update_register([j EXCEPT !.buttons[button] = TRUE,
                              !.interrupt_requested = j.interrupt_requested \/ ~j.buttons[button]])

\* Joypad::press
press(j, button) ==
    IF ~j.buttons[button]
    THEN LET is_direction == button \in {"Up", "Down", "Left", "Right"}
             select_directions == Bit(j.register, 4) = 0
             select_buttons == Bit(j.register, 5) = 0
         IN  update_register(
                 [j EXCEPT !.buttons[button] = TRUE,
                           !.interrupt_requested =
                               j.interrupt_requested
                               \/ (is_direction /\ select_directions)
                               \/ (~is_direction /\ select_buttons)])
    ELSE update_register(j)

\* Joypad::release
release(j, button) == update_register([j EXCEPT !.buttons[button] = FALSE])

\* Joypad::write; Joypad::read returns the register
joypad_write(j, value) ==
    update_register([j EXCEPT !.register = BitOr(BitAnd(j.register, 192), BitAnd(value, 48))])

----------------------------------------------------------------------------
(* Memory bus (src/src/memory.rs).                                         *)

BANK_MASK == 31

\* the length of Rom::buffer, [u8; 0x2FFFF]
ROM_BUFFER_LEN == 196607

\* Memory::new(rom_buffer) with the ROM image given as a finite map: the
\* first ROM_BUFFER_LEN bytes are copied, the rest of the buffer is 0
MemoryNew(rom_buffer) ==
    [main_memory |-> <<>>,
     rom |-> [i \in {j \in DOMAIN rom_buffer : j < ROM_BUFFER_LEN} |-> rom_buffer[i]],
     rom_loaded |-> TRUE,
     current_rom_bank |-> 1,
     timer |-> TimerNew,
     serial |-> SerialNew,
     ppu |-> PpuNew,
     joypad_state |-> 207,
     joypad |-> JoypadNew]

\* a switchable-bank read that indexes the buffer without the length test
rom_bank_byte_unchecked(m, address) ==
    Get(m.rom, m.current_rom_bank * 16384 + (address - 16384))

\* the switchable-bank arm of Memory::read_8
rom_bank_byte(m, address) ==
    LET bank == IF m.current_rom_bank = 0 THEN 1 ELSE m.current_rom_bank
        offset == bank * 16384 + (address - 16384)
    IN  IF offset < ROM_BUFFER_LEN THEN Get(m.rom, offset) ELSE 255

read_8(m, address) ==
    IF address = 65280 THEN m.joypad_state
    ELSE IF address >= 65284 /\ address <= 65287 THEN timer_read(m.timer, address)
    ELSE IF address >= 65281 /\ address <= 65282 THEN serial_read(m.serial, address)
    ELSE IF address >= 65344 /\ address <= 65355 THEN ppu_read(m.ppu, address)
    ELSE IF address >= 32768 /\ address <= 40959 THEN Get(m.ppu.vram, address - 32768)
    ELSE IF address >= 65024 /\ address <= 65183 THEN Get(m.ppu.oam, address - 65024)
    ELSE IF m.rom_loaded /\ address < 16384 THEN Get(m.rom, address)
    ELSE IF m.rom_loaded /\ address >= 16384 /\ address < 32768
         THEN rom_bank_byte(m, address)
    ELSE Get(m.main_memory, address)

read_16(m, address) ==
    LET x == read_8(m, address)
        y == read_8(m, add_u16(address, 1))
    IN  y * 256 + x

\* a bank select that keeps bank 0
write_to_rom_register_raw(m, address, value) ==
    IF address >= 8192 /\ address <= 16383
    THEN [m EXCEPT !.current_rom_bank = BitAnd(value, BANK_MASK)]
    ELSE m

write_to_rom_register(m, address, value) ==
    IF address >= 8192 /\ address <= 16383
    THEN LET bn == BitAnd(value, BANK_MASK)
         IN  [m EXCEPT !.current_rom_bank = IF bn = 0 THEN 1 ELSE bn]
    ELSE m

write_8(m, address, value) ==
    IF address = 65280
    THEN [m EXCEPT !.joypad_state = BitOr(BitAnd(m.joypad_state, 15), BitAnd(value, 48))]
    ELSE IF address >= 65284 /\ address <= 65287
    THEN [m EXCEPT !.timer = timer_write(m.timer, address, value)]
    ELSE IF address >= 65281 /\ address <= 65282
    THEN [m EXCEPT !.serial = serial_write(m.serial, address, value)]
    ELSE IF address >= 65344 /\ address <= 65355
    THEN [m EXCEPT !.ppu = ppu_write(m.ppu, address, value)]
    ELSE IF address >= 32768 /\ address <= 40959
    THEN [m EXCEPT !.ppu.vram = Put(m.ppu.vram, address - 32768, value)]
    ELSE IF address >= 65024 /\ address <= 65183
    THEN [m EXCEPT !.ppu.oam = Put(m.ppu.oam, address - 65024, value)]
    ELSE IF address < 32768
    THEN write_to_rom_register(m, address, value)
    ELSE [m EXCEPT !.main_memory = Put(m.main_memory, address, value)]

write_16(m, address, value) ==
    write_8(write_8(m, address, value % 256), add_u16(address, 1), value \div 256)

----------------------------------------------------------------------------
(* CPU registers (src/src/cpu.rs, impl Registers).                         *)

ZERO_FLAG == 128
SUBTRACT_FLAG == 64
HALF_CARRY_FLAG == 32
CARRY_FLAG == 16

\* mask applied to a byte written to F
f_mask(value) == BitAnd(value, 240)

af_mask_none(value) == BitAnd(value, 65535)

\* mask applied to a word written to AF
af_mask(value) == BitAnd(value, 65520)

read_r8(r, register) ==
    CASE register = "A" -> r.af \div 256
      [] register = "B" -> r.bc \div 256
      [] register = "C" -> r.bc % 256
      [] register = "D" -> r.de \div 256
      [] register = "E" -> r.de % 256
      [] register = "H" -> r.hl \div 256
      [] register = "L" -> r.hl % 256
      [] register = "F" -> r.af % 256

read_r16(r, register) ==
    CASE register = "AF" -> r.af
      [] register = "BC" -> r.bc
      [] register = "DE" -> r.de
      [] register = "HL" -> r.hl
      [] register = "SP" -> r.sp
      [] register = "PC" -> r.pc

write_r8(r, register, value) ==
    CASE register = "A" -> [r EXCEPT !.af = (r.af % 256) + value * 256]
      [] register = "B" -> [r EXCEPT !.bc = (r.bc % 256) + value * 256]
      [] register = "C" -> [r EXCEPT !.bc = (r.bc \div 256) * 256 + value]
      [] register = "D" -> [r EXCEPT !.de = (r.de % 256) + value * 256]
      [] register = "E" -> [r EXCEPT !.de = (r.de \div 256) * 256 + value]
      [] register = "H" -> [r EXCEPT !.hl = (r.hl % 256) + value * 256]
      [] register = "L" -> [r EXCEPT !.hl = (r.hl \div 256) * 256 + value]
      [] register = "F" -> [r EXCEPT !.af = (r.af \div 256) * 256 + f_mask(value)]

write_r16(r, register, value) ==
    CASE register = "AF" -> [r EXCEPT !.af = af_mask(value)]
      [] register = "BC" -> [r EXCEPT !.bc = value]
      [] register = "DE" -> [r EXCEPT !.de = value]
      [] register = "HL" -> [r EXCEPT !.hl = value]
      [] register = "SP" -> [r EXCEPT !.sp = value]
      [] register = "PC" -> [r EXCEPT !.pc = value]

\* Cpu::new()
CpuNew ==
    [registers |-> [af |-> 0, bc |-> 0, de |-> 0, hl |-> 0, sp |-> 0, pc |-> 0, ime |-> 0],
     cycles |-> 0, ei_pending |-> FALSE, halted |-> FALSE, halt_bug |-> FALSE]

\* Operand::from_index
from_index(idx) ==
    CASE idx = 0 -> "B" [] idx = 1 -> "C" [] idx = 2 -> "D" [] idx = 3 -> "E"
      [] idx = 4 -> "H" [] idx = 5 -> "L" [] idx = 6 -> "MemHL" [] idx = 7 -> "A"

----------------------------------------------------------------------------
(* Instruction handlers.  s is the pair [c |-> cpu, m |-> memory].         *)

PCof(s) == s.c.registers.pc
Fof(s) == read_r8(s.c.registers, "F")
Aof(s) == read_r8(s.c.registers, "A")
SetR8(s, reg, v) == [s EXCEPT !.c.registers = write_r8(s.c.registers, reg, v)]
SetR16(s, reg, v) == [s EXCEPT !.c.registers = write_r16(s.c.registers, reg, v)]
Mw8(s, address, v) == [s EXCEPT !.m = write_8(s.m, address, v)]
Mw16(s, address, v) == [s EXCEPT !.m = write_16(s.m, address, v)]
\* immediate operands following the opcode
Imm8(s) == read_8(s.m, add_u16(PCof(s), 1))
Imm16(s) == read_16(s.m, add_u16(PCof(s), 1))

\* the register pair addressing a memory operand
mem_operand_r16(op) ==
    CASE op = "MemHL" -> "HL" [] op = "MemBC" -> "BC" [] op = "MemDE" -> "DE"

read_operand(s, op) ==
    IF op \in {"MemHL", "MemBC", "MemDE"}
    THEN read_8(s.m, read_r16(s.c.registers, mem_operand_r16(op)))
    ELSE read_r8(s.c.registers, op)

write_operand(s, op, value) ==
    IF op \in {"MemHL", "MemBC", "MemDE"}
    THEN Mw8(s, read_r16(s.c.registers, mem_operand_r16(op)), value)
    ELSE SetR8(s, op, value)

ld_r16_nn(s, reg) == SetR16(s, reg, Imm16(s))
ld_r8_n(s, reg) == SetR8(s, reg, Imm8(s))
ld_operand(s, dest, source) == write_operand(s, dest, read_operand(s, source))

\* flags of ADD SP,e / LD HL,SP+e
sp_e_flags(sp, offset_u8) ==
    (IF (sp % 16) + (offset_u8 % 16) > 15 THEN HALF_CARRY_FLAG ELSE 0)
    + (IF (sp % 256) + offset_u8 > 255 THEN CARRY_FLAG ELSE 0)

ld_sp_e(s) ==
    LET off == Imm8(s)
        sp == s.c.registers.sp
        result == (sp + as_i8(off) + 65536) % 65536
    IN  SetR8(SetR16(s, "HL", result), "F", sp_e_flags(sp, off))


\* a pop that leaves SP where it was
pop_keeps_sp(s, reg) == SetR16(s, reg, read_16(s.m, s.c.registers.sp))

pop(s, reg) ==
    LET value == read_16(s.m, s.c.registers.sp)
        s1 == SetR16(s, reg, value)
    IN  SetR16(s1, "SP", add_u16(s1.c.registers.sp, 2))

push(s, reg) ==
    LET value == read_r16(s.c.registers, reg)
        s1 == SetR16(s, "SP", sub_u16(s.c.registers.sp, 2))
    IN  Mw16(s1, s1.c.registers.sp, value)

\* Z/N/H of INC (n = 0) and DEC (n = 1); C is kept
incdec_flags(f, value, result, n) ==
    BitAnd(f, CARRY_FLAG)
    + (IF result = 0 THEN ZERO_FLAG ELSE 0)
    + (IF n = 1 THEN SUBTRACT_FLAG ELSE 0)
    + (IF (n = 0 /\ value % 16 = 15) \/ (n = 1 /\ value % 16 = 0)
       THEN HALF_CARRY_FLAG ELSE 0)

inc_r8(s, reg) ==
    LET value == read_r8(s.c.registers, reg)
        result == add_u8(value, 1)
        s1 == SetR8(s, reg, result)
    IN  SetR8(s1, "F", incdec_flags(Fof(s1), value, result, 0))

dec_r8(s, reg) ==
    LET value == read_r8(s.c.registers, reg)
        result == sub_u8(value, 1)
        s1 == SetR8(s, reg, result)
    IN  SetR8(s1, "F", incdec_flags(Fof(s1), value, result, 1))

inc_r16(s, reg) == SetR16(s, reg, add_u16(read_r16(s.c.registers, reg), 1))
dec_r16(s, reg) == SetR16(s, reg, sub_u16(read_r16(s.c.registers, reg), 1))

inc_mem(s, reg) ==
    LET addr == read_r16(s.c.registers, reg)
        value == read_8(s.m, addr)
        result == add_u8(value, 1)
        s1 == Mw8(s, addr, result)
    IN  SetR8(s1, "F", incdec_flags(Fof(s1), value, result, 0))

dec_mem(s, reg) ==
    LET addr == read_r16(s.c.registers, reg)
        value == read_8(s.m, addr)
        result == sub_u8(value, 1)
        s1 == Mw8(s, addr, result)
    IN  SetR8(s1, "F", incdec_flags(Fof(s1), value, result, 1))

rlca(s) ==
    LET value == Aof(s)
        msb == value \div 128
    IN  SetR8(SetR8(s, "A", ((value * 2) % 256) + msb), "F", msb * CARRY_FLAG)

rla(s) ==
    LET value == Aof(s)
        msb == value \div 128
        cin == Bit(Fof(s), 4)
    IN  SetR8(SetR8(s, "A", ((value * 2) % 256) + cin), "F", msb * CARRY_FLAG)

rrca(s) ==
    LET value == Aof(s)
        lsb == value % 2
    IN  SetR8(SetR8(s, "A", (value \div 2) + lsb * 128), "F", lsb * CARRY_FLAG)

rra(s) ==
    LET value == Aof(s)
        lsb == value % 2
        cin == Bit(Fof(s), 4)
    IN  SetR8(SetR8(s, "A", (value \div 2) + cin * 128), "F", lsb * CARRY_FLAG)

add_hl(s, reg) ==
    LET value == read_r16(s.c.registers, reg)
        hl == s.c.registers.hl
        result == value + hl
        s1 == SetR16(s, "HL", result % 65536)
    IN  SetR8(s1, "F", BitAnd(Fof(s1), ZERO_FLAG)
                 + (IF result > 65535 THEN CARRY_FLAG ELSE 0)
                 + (IF (value % 4096) + (hl % 4096) > 4095 THEN HALF_CARRY_FLAG ELSE 0))

\* ADD A,r and ADD A,n: value is the operand the handler has read
add_a_r(s, value) ==
    LET a == Aof(s)
        result == value + a
    IN  SetR8(SetR8(s, "A", result % 256), "F",
             (IF result > 255 THEN CARRY_FLAG ELSE 0)
             + (IF (value % 16) + (a % 16) > 15 THEN HALF_CARRY_FLAG ELSE 0)
             + (IF result % 256 = 0 THEN ZERO_FLAG ELSE 0))

\* ADC A,r and ADC A,n
adc_a_r(s, value) ==
    LET a == Aof(s)
        carry == Bit(Fof(s), 4)
        result == value + a + carry
    IN  SetR8(SetR8(s, "A", result % 256), "F",
             (IF result > 255 THEN CARRY_FLAG ELSE 0)
             + (IF (value % 16) + (a % 16) + carry > 15 THEN HALF_CARRY_FLAG ELSE 0)
             + (IF result % 256 = 0 THEN ZERO_FLAG ELSE 0))

add_sp_e(s) ==
    LET off == Imm8(s)
        sp == s.c.registers.sp
        result == (sp + as_i8(off) + 65536) % 65536
    IN  SetR8(SetR16(s, "SP", result), "F", sp_e_flags(sp, off))

\* SUB / CP flags with Z set always
sub_flags_z_always(a, value) ==
    SUBTRACT_FLAG
    + (IF a < value THEN CARRY_FLAG ELSE 0)
    + (IF (a % 16) < (value % 16) THEN HALF_CARRY_FLAG ELSE 0)
    + ZERO_FLAG

\* flags of SUB / CP
sub_flags(a, value) ==
    SUBTRACT_FLAG
    + (IF a < value THEN CARRY_FLAG ELSE 0)
    + (IF (a % 16) < (value % 16) THEN HALF_CARRY_FLAG ELSE 0)
    + (IF a = value THEN ZERO_FLAG ELSE 0)

\* SUB A,r and SUB A,n
sub_a_r(s, value) ==
    LET a == Aof(s)
    IN  SetR8(SetR8(s, "A", sub_u8(a, value)), "F", sub_flags(a, value))

\* SBC A,r and SBC A,n
sbc_a_r(s, value) ==
    LET a == Aof(s)
        carry_in == Bit(Fof(s), 4)
        temp_result == (a - value - carry_in + 65536) % 65536
        result == temp_result % 256
    IN  SetR8(SetR8(s, "A", result), "F",
             SUBTRACT_FLAG
             + (IF temp_result > 255 THEN CARRY_FLAG ELSE 0)
             + (IF (a % 16) < (value % 16) + carry_in THEN HALF_CARRY_FLAG ELSE 0)
             + (IF result = 0 THEN ZERO_FLAG ELSE 0))

daa(s) ==
    LET value == Aof(s)
        flags == Fof(s)
        nf == BitAnd(flags, SUBTRACT_FLAG) # 0
        cf == BitAnd(flags, CARRY_FLAG) # 0
        hf == BitAnd(flags, HALF_CARRY_FLAG) # 0
        hi == IF nf THEN cf ELSE (cf \/ value > 153)
        lo == IF nf THEN hf ELSE (hf \/ (value % 16) > 9)
        adjust == (IF hi THEN 96 ELSE 0) + (IF lo THEN 6 ELSE 0)
        result == IF nf THEN sub_u8(value, adjust) ELSE add_u8(value, adjust)
        new_flags == BitAnd(flags, SUBTRACT_FLAG)
                     + (IF result = 0 THEN ZERO_FLAG ELSE 0)
                     + (IF hi THEN CARRY_FLAG ELSE 0)
    IN  SetR8(SetR8(s, "F", new_flags), "A", result)

cpl(s) ==
    LET s1 == SetR8(s, "A", 255 - Aof(s))
    IN  SetR8(s1, "F", BitOr(Fof(s1), SUBTRACT_FLAG + HALF_CARRY_FLAG))

\* AND / XOR / OR A,r and A,n: store the result, set Z (and H for AND)
and_a_r(s, value) ==
    LET result == BitAnd(Aof(s), value)
    IN  SetR8(SetR8(s, "A", result), "F", HALF_CARRY_FLAG + (IF result = 0 THEN ZERO_FLAG ELSE 0))

xor_a_r(s, value) ==
    LET result == BitXor(Aof(s), value)
    IN  SetR8(SetR8(s, "A", result), "F", IF result = 0 THEN ZERO_FLAG ELSE 0)

or_a_r(s, value) ==
    LET result == BitOr(Aof(s), value)
    IN  SetR8(SetR8(s, "A", result), "F", IF result = 0 THEN ZERO_FLAG ELSE 0)

\* CP A,r and CP A,n
cp_a_r(s, value) == SetR8(s, "F", sub_flags(Aof(s), value))

halt(s) ==
    LET ie == read_8(s.m, 65535)
        if_reg == read_8(s.m, 65295)
        interrupt_pending == BitAnd(BitAnd(ie, if_reg), 31) # 0
    IN  IF s.c.registers.ime = 0 /\ interrupt_pending
        THEN [s EXCEPT !.c.halt_bug = TRUE]
        ELSE [s EXCEPT !.c.halted = TRUE]

scf(s) == SetR8(s, "F", BitAnd(Fof(s), ZERO_FLAG) + CARRY_FLAG)
ccf(s) == SetR8(s, "F", BitAnd(Fof(s), ZERO_FLAG) + (CARRY_FLAG - BitAnd(Fof(s), CARRY_FLAG)))

----------------------------------------------------------------------------
(* CB-prefixed handlers.                                                   *)

\* C/Z flags of a CB rotate or shift
cb_flags(carry_out, result) ==
    (IF carry_out # 0 THEN CARRY_FLAG ELSE 0) + (IF result = 0 THEN ZERO_FLAG ELSE 0)

\* writes F first and then the operand, as every CB rotate/shift does
cb_store(s, op, carry_out, result) ==
    write_operand(SetR8(s, "F", cb_flags(carry_out, result)), op, result)

rlc_r(s, op) ==
    LET value == read_operand(s, op)
    IN  cb_store(s, op, value \div 128, ((value * 2) % 256) + (value \div 128))

rrc_r(s, op) ==
    LET value == read_operand(s, op)
    IN  cb_store(s, op, value % 2, (value \div 2) + (value % 2) * 128)

rl_r(s, op) ==
    LET value == read_operand(s, op)
    IN  cb_store(s, op, value \div 128, ((value * 2) % 256) + Bit(Fof(s), 4))

rr_r(s, op) ==
    LET value == read_operand(s, op)
    IN  cb_store(s, op, value % 2, (value \div 2) + Bit(Fof(s), 4) * 128)

sla_r(s, op) ==
    LET value == read_operand(s, op)
    IN  cb_store(s, op, value \div 128, (value * 2) % 256)

sra_r(s, op) ==
    LET value == read_operand(s, op)
    IN  cb_store(s, op, value % 2, (value \div 2) + (value \div 128) * 128)

swap_r(s, op) ==
    LET value == read_operand(s, op)
    IN  cb_store(s, op, 0, (value % 16) * 16 + (value \div 16))

srl_r(s, op) ==
    LET value == read_operand(s, op)
    IN  cb_store(s, op, value % 2, value \div 2)

bit_n_r(s, op, n) ==
    LET value == read_operand(s, op)
    IN  SetR8(s, "F", BitAnd(Fof(s), CARRY_FLAG) + HALF_CARRY_FLAG
                + (IF Bit(value, n) = 0 THEN ZERO_FLAG ELSE 0))

res_n_r(s, op, n) ==
    LET value == read_operand(s, op)
    IN  write_operand(s, op, value - Bit(value, n) * (2 ^ n))

set_n_r(s, op, n) ==
    LET value == read_operand(s, op)
    IN  write_operand(s, op, value + (1 - Bit(value, n)) * (2 ^ n))

\* the dispatch of call_cb on the byte following the 0xCB prefix
cb_dispatch(s, cb_opcode, op, n) ==
    CASE cb_opcode <= 7 -> rlc_r(s, op)
      [] cb_opcode >= 8 /\ cb_opcode <= 15 -> rrc_r(s, op)
      [] cb_opcode >= 16 /\ cb_opcode <= 23 -> rl_r(s, op)
      [] cb_opcode >= 24 /\ cb_opcode <= 31 -> rr_r(s, op)
      [] cb_opcode >= 32 /\ cb_opcode <= 39 -> sla_r(s, op)
      [] cb_opcode >= 40 /\ cb_opcode <= 47 -> sra_r(s, op)
      [] cb_opcode >= 48 /\ cb_opcode <= 55 -> swap_r(s, op)
      [] cb_opcode >= 56 /\ cb_opcode <= 63 -> srl_r(s, op)
      [] cb_opcode >= 64 /\ cb_opcode <= 127 -> bit_n_r(s, op, n)
      [] cb_opcode >= 128 /\ cb_opcode <= 191 -> res_n_r(s, op, n)
      [] OTHER -> set_n_r(s, op, n)

call_cb(s) ==
    cb_dispatch(s, Imm8(s), from_index(Imm8(s) % 8), (Imm8(s) \div 8) % 8)

----------------------------------------------------------------------------
(* Interrupt enable / disable and control flow.                            *)

di(s) == [s EXCEPT !.c.registers.ime = 0, !.c.ei_pending = FALSE]

ei(s) == [s EXCEPT !.c.ei_pending = TRUE]

\* the condition test shared by JR/JP/CALL/RET cc
cond_met(s, cflag, z) ==
    LET shift == IF cflag = "c" THEN 4 ELSE 7
    IN  Bit(Fof(s), shift) = B2N(z)

jr_e(s) == SetR16(s, "PC", (PCof(s) + 2 + as_i8(Imm8(s)) + 65536) % 65536)

jr_f_e(s, cflag, z) ==
    IF cond_met(s, cflag, z)
    THEN jr_e(s)
    ELSE SetR16(s, "PC", add_u16(PCof(s), 2))

jp_nn(s) == SetR16(s, "PC", Imm16(s))

jp_f_nn(s, cflag, condition) ==
    IF cond_met(s, cflag, condition)
    THEN SetR16(s, "PC", Imm16(s))
    ELSE SetR16(s, "PC", add_u16(PCof(s), 3))

jp_hl(s) == SetR16(s, "PC", s.c.registers.hl)

call_nn(s) ==
    LET target_address == Imm16(s)
        return_address == add_u16(PCof(s), 3)
        s1 == SetR16(s, "SP", sub_u16(s.c.registers.sp, 2))
        s2 == Mw16(s1, s1.c.registers.sp, return_address)
    IN  SetR16(s2, "PC", target_address)

call_f_nn(s, cflag, z) ==
    IF cond_met(s, cflag, z)
    THEN call_nn(s)
    ELSE SetR16(s, "PC", add_u16(PCof(s), 3))

rst(s, value) ==
    LET return_address == add_u16(PCof(s), 1)
        s1 == SetR16(s, "SP", sub_u16(s.c.registers.sp, 2))
        s2 == Mw16(s1, s1.c.registers.sp, return_address)
    IN  SetR16(s2, "PC", value)

ret(s) ==
    LET value == read_16(s.m, s.c.registers.sp)
        s1 == SetR16(s, "SP", add_u16(s.c.registers.sp, 2))
    IN  SetR16(s1, "PC", value)

ret_f(s, cflag, z) ==
    IF cond_met(s, cflag, z)
    THEN ret(s)
    ELSE SetR16(s, "PC", add_u16(PCof(s), 1))

reti(s) ==
    LET s1 == ret(s)
    IN  [s1 EXCEPT !.c.registers.ime = 1]

\* a default arm that leaves PC to the length table
unknown_opcode_by_table(s) == s

\* the default arm of execute: unknown opcode, PC + 1
unknown_opcode(s) == SetR16(s, "PC", add_u16(PCof(s), 1))

----------------------------------------------------------------------------
(* Opcode tables, indexed by opcode + 1.                                   *)

OPCODE_DURATION ==
    <<
       4, 12, 8, 8, 4, 4, 8, 4, 20, 8, 8, 8, 4, 4, 8, 4,
       4, 12, 8, 8, 4, 4, 8, 4, 12, 8, 8, 8, 4, 4, 8, 4,
       12, 12, 8, 8, 4, 4, 8, 4, 12, 8, 8, 8, 4, 4, 8, 4,
       12, 12, 8, 8, 12, 12, 12, 4, 12, 8, 8, 8, 4, 4, 8, 4,
       4, 4, 4, 4, 4, 4, 8, 4, 4, 4, 4, 4, 4, 4, 8, 4,
       4, 4, 4, 4, 4, 4, 8, 4, 4, 4, 4, 4, 4, 4, 8, 4,
       4, 4, 4, 4, 4, 4, 8, 4, 4, 4, 4, 4, 4, 4, 8, 4,
       8, 8, 8, 8, 8, 8, 4, 8, 4, 4, 4, 4, 4, 4, 8, 4,
       4, 4, 4, 4, 4, 4, 8, 4, 4, 4, 4, 4, 4, 4, 8, 4,
       4, 4, 4, 4, 4, 4, 8, 4, 4, 4, 4, 4, 4, 4, 8, 4,
       4, 4, 4, 4, 4, 4, 8, 4, 4, 4, 4, 4, 4, 4, 8, 4,
       4, 4, 4, 4, 4, 4, 8, 4, 4, 4, 4, 4, 4, 4, 8, 4,
       20, 12, 16, 16, 24, 16, 8, 16, 20, 16, 16, 4, 24, 24, 8, 16,
       20, 12, 16, 0, 24, 16, 8, 16, 20, 16, 16, 0, 24, 0, 8, 16,
       12, 12, 8, 0, 0, 16, 8, 16, 16, 4, 16, 0, 0, 0, 8, 16,
       12, 12, 8, 4, 0, 16, 8, 16, 12, 8, 16, 4, 0, 0, 8, 16
    >>

OPCODE_DURATION_CB ==
    <<
       8, 8, 8, 8, 8, 8, 16, 8, 8, 8, 8, 8, 8, 8, 16, 8,
       8, 8, 8, 8, 8, 8, 16, 8, 8, 8, 8, 8, 8, 8, 16, 8,
       8, 8, 8, 8, 8, 8, 16, 8, 8, 8, 8, 8, 8, 8, 16, 8,
       8, 8, 8, 8, 8, 8, 16, 8, 8, 8, 8, 8, 8, 8, 16, 8,
       8, 8, 8, 8, 8, 8, 16, 8, 8, 8, 8, 8, 8, 8, 16, 8,
       8, 8, 8, 8, 8, 8, 16, 8, 8, 8, 8, 8, 8, 8, 16, 8,
       8, 8, 8, 8, 8, 8, 16, 8, 8, 8, 8, 8, 8, 8, 16, 8,
       8, 8, 8, 8, 8, 8, 16, 8, 8, 8, 8, 8, 8, 8, 16, 8,
       8, 8, 8, 8, 8, 8, 16, 8, 8, 8, 8, 8, 8, 8, 16, 8,
       8, 8, 8, 8, 8, 8, 16, 8, 8, 8, 8, 8, 8, 8, 16, 8,
       8, 8, 8, 8, 8, 8, 16, 8, 8, 8, 8, 8, 8, 8, 16, 8,
       8, 8, 8, 8, 8, 8, 16, 8, 8, 8, 8, 8, 8, 8, 16, 8,
       8, 8, 8, 8, 8, 8, 16, 8, 8, 8, 8, 8, 8, 8, 16, 8,
       8, 8, 8, 8, 8, 8, 16, 8, 8, 8, 8, 8, 8, 8, 16, 8,
       8, 8, 8, 8, 8, 8, 16, 8, 8, 8, 8, 8, 8, 8, 16, 8,
       8, 8, 8, 8, 8, 8, 16, 8, 8, 8, 8, 8, 8, 8, 16, 8
    >>

OPCODE_LENGTHS ==
    <<
       1, 3, 1, 1, 1, 1, 2, 1, 3, 1, 1, 1, 1, 1, 2, 1,
       2, 3, 1, 1, 1, 1, 2, 1, 2, 1, 1, 1, 1, 1, 2, 1,
       2, 3, 1, 1, 1, 1, 2, 1, 2, 1, 1, 1, 1, 1, 2, 1,
       2, 3, 1, 1, 1, 1, 2, 1, 2, 1, 1, 1, 1, 1, 2, 1,
       1, 1, 1, 1, 1, 1, 1, 1, 1, 1, 1, 1, 1, 1, 1, 1,
       1, 1, 1, 1, 1, 1, 1, 1, 1, 1, 1, 1, 1, 1, 1, 1,
       1, 1, 1, 1, 1, 1, 1, 1, 1, 1, 1, 1, 1, 1, 1, 1,
       1, 1, 1, 1, 1, 1, 1, 1, 1, 1, 1, 1, 1, 1, 1, 1,
       1, 1, 1, 1, 1, 1, 1, 1, 1, 1, 1, 1, 1, 1, 1, 1,
       1, 1, 1, 1, 1, 1, 1, 1, 1, 1, 1, 1, 1, 1, 1, 1,
       1, 1, 1, 1, 1, 1, 1, 1, 1, 1, 1, 1, 1, 1, 1, 1,
       1, 1, 1, 1, 1, 1, 1, 1, 1, 1, 1, 1, 1, 1, 1, 1,
       1, 1, 3, 3, 3, 1, 2, 1, 1, 1, 3, 2, 3, 3, 2, 1,
       1, 1, 3, 0, 3, 1, 2, 1, 1, 1, 3, 0, 3, 0, 2, 1,
       2, 1, 1, 0, 0, 1, 2, 1, 2, 1, 3, 0, 0, 0, 2, 1,
       2, 1, 1, 1, 0, 1, 2, 1, 2, 1, 3, 1, 0, 0, 2, 1
    >>

pc_modifying_opcodes ==
    {195, 194, 202, 210, 218,
     233,
     24, 32, 40, 48, 56,
     205, 196, 204, 212, 220,
     201, 192, 200, 208, 216,
     217,
     199, 207, 215, 223, 231, 239, 247, 255}

----------------------------------------------------------------------------
(* Cpu::execute: the 256-way dispatch.                                     *)

\* register pair of an opcode in rows 0x00..0x3F (fourth = "SP") or of
\* PUSH/POP in rows 0xC0..0xFF (fourth = "AF")
r16_of(opcode, fourth) ==
    CASE (opcode \div 16) % 4 = 0 -> "BC" [] (opcode \div 16) % 4 = 1 -> "DE"
      [] (opcode \div 16) % 4 = 2 -> "HL" [] OTHER -> fourth

\* an arm that holds the body of its handler names the handler on its line
execute(opcode, s) ==
    CASE opcode = 0 -> s                                         \* nop
      [] opcode \in {1, 17, 33, 49} -> ld_r16_nn(s, r16_of(opcode, "SP"))
      [] opcode = 2 -> ld_operand(s, "MemBC", "A")
      [] opcode = 18 -> ld_operand(s, "MemDE", "A")
      [] opcode = 34 -> inc_r16(ld_operand(s, "MemHL", "A"), "HL")
      [] opcode = 50 -> dec_r16(ld_operand(s, "MemHL", "A"), "HL")
      [] opcode \in {3, 19, 35, 51} -> inc_r16(s, r16_of(opcode, "SP"))
      [] opcode \in {4, 12, 20, 28, 36, 44, 60} -> inc_r8(s, from_index(opcode \div 8))
      [] opcode \in {5, 13, 21, 29, 37, 45, 61} -> dec_r8(s, from_index(opcode \div 8))
      [] opcode \in {6, 14, 22, 30, 38, 46, 62} -> ld_r8_n(s, from_index(opcode \div 8))
      [] opcode = 7 -> rlca(s)
      [] opcode = 8 -> Mw16(s, Imm16(s), s.c.registers.sp)       \* ld_nn_sp
      [] opcode \in {9, 25, 41, 57} -> add_hl(s, r16_of(opcode, "SP"))
      [] opcode = 10 -> ld_operand(s, "A", "MemBC")
      [] opcode = 26 -> ld_operand(s, "A", "MemDE")
      [] opcode = 42 -> inc_r16(ld_operand(s, "A", "MemHL"), "HL")
      [] opcode = 58 -> dec_r16(ld_operand(s, "A", "MemHL"), "HL")
      [] opcode \in {11, 27, 43, 59} -> dec_r16(s, r16_of(opcode, "SP"))
      [] opcode = 15 -> rrca(s)
      [] opcode = 16 -> s                                        \* stop
      [] opcode = 23 -> rla(s)
      [] opcode = 24 -> jr_e(s)
      [] opcode = 31 -> rra(s)
      [] opcode = 32 -> jr_f_e(s, "z", FALSE)
      [] opcode = 39 -> daa(s)
      [] opcode = 40 -> jr_f_e(s, "z", TRUE)
      [] opcode = 47 -> cpl(s)
      [] opcode = 48 -> jr_f_e(s, "c", FALSE)
      [] opcode = 52 -> inc_mem(s, "HL")
      [] opcode = 53 -> dec_mem(s, "HL")
      [] opcode = 54 -> Mw8(s, s.c.registers.hl, Imm8(s))        \* ld_m_n
      [] opcode = 55 -> scf(s)
      [] opcode = 56 -> jr_f_e(s, "c", TRUE)
      [] opcode = 63 -> ccf(s)
      [] opcode = 118 -> halt(s)
      [] opcode >= 64 /\ opcode <= 127 /\ opcode # 118 ->
            ld_operand(s, from_index((opcode \div 8) % 8), from_index(opcode % 8))
      [] opcode >= 128 /\ opcode <= 135 -> add_a_r(s, read_operand(s, from_index(opcode % 8)))
      [] opcode >= 136 /\ opcode <= 143 -> adc_a_r(s, read_operand(s, from_index(opcode % 8)))
      [] opcode >= 144 /\ opcode <= 151 -> sub_a_r(s, read_operand(s, from_index(opcode % 8)))
      [] opcode >= 152 /\ opcode <= 159 -> sbc_a_r(s, read_operand(s, from_index(opcode % 8)))
      [] opcode >= 160 /\ opcode <= 167 -> and_a_r(s, read_operand(s, from_index(opcode % 8)))
      [] opcode >= 168 /\ opcode <= 175 -> xor_a_r(s, read_operand(s, from_index(opcode % 8)))
      [] opcode >= 176 /\ opcode <= 183 -> or_a_r(s, read_operand(s, from_index(opcode % 8)))
      [] opcode >= 184 /\ opcode <= 191 -> cp_a_r(s, read_operand(s, from_index(opcode % 8)))
      [] opcode = 192 -> ret_f(s, "z", FALSE)
      [] opcode \in {193, 209, 225, 241} -> pop(s, r16_of(opcode, "AF"))
      [] opcode = 194 -> jp_f_nn(s, "z", FALSE)
      [] opcode = 195 -> jp_nn(s)
      [] opcode = 196 -> call_f_nn(s, "z", FALSE)
      [] opcode \in {197, 213, 229, 245} -> push(s, r16_of(opcode, "AF"))
      [] opcode = 198 -> add_a_r(s, Imm8(s))                     \* add_a_n
      [] opcode \in {199, 207, 215, 223, 231, 239, 247, 255} -> rst(s, opcode - 199)
      [] opcode = 200 -> ret_f(s, "z", TRUE)
      [] opcode = 201 -> ret(s)
      [] opcode = 202 -> jp_f_nn(s, "z", TRUE)
      [] opcode = 203 -> call_cb(s)
      [] opcode = 204 -> call_f_nn(s, "z", TRUE)
      [] opcode = 205 -> call_nn(s)
      [] opcode = 206 -> adc_a_r(s, Imm8(s))                     \* adc_a_n
      [] opcode = 208 -> ret_f(s, "c", FALSE)
      [] opcode = 210 -> jp_f_nn(s, "c", FALSE)
      [] opcode = 212 -> call_f_nn(s, "c", FALSE)
      [] opcode = 214 -> sub_a_r(s, Imm8(s))                     \* sub_a_n
      [] opcode = 216 -> ret_f(s, "c", TRUE)
      [] opcode = 217 -> reti(s)
      [] opcode = 218 -> jp_f_nn(s, "c", TRUE)
      [] opcode = 220 -> call_f_nn(s, "c", TRUE)
      [] opcode = 222 -> sbc_a_r(s, Imm8(s))                     \* sbc_a_n
      [] opcode = 224 -> Mw8(s, 65280 + Imm8(s), Aof(s))         \* ldh_n_a
      [] opcode = 226 -> Mw8(s, 65280 + read_r8(s.c.registers, "C"), Aof(s))   \* ldh_c_a
      [] opcode = 230 -> and_a_r(s, Imm8(s))                     \* and_a_n
      [] opcode = 232 -> add_sp_e(s)
      [] opcode = 233 -> jp_hl(s)
      [] opcode = 234 -> Mw8(s, Imm16(s), Aof(s))                \* ld_nn_a
      [] opcode = 238 -> xor_a_r(s, Imm8(s))                     \* xor_a_n
      [] opcode = 240 -> SetR8(s, "A", read_8(s.m, 65280 + Imm8(s)))           \* ldh_a_n
      [] opcode = 242 -> SetR8(s, "A", read_8(s.m, 65280 + read_r8(s.c.registers, "C")))  \* ldh_a_c
      [] opcode = 243 -> di(s)
      [] opcode = 246 -> or_a_r(s, Imm8(s))                      \* or_a_n
      [] opcode = 248 -> ld_sp_e(s)
      [] opcode = 249 -> SetR16(s, "SP", s.c.registers.hl)       \* ld_sp_hl
      [] opcode = 250 -> SetR8(s, "A", read_8(s.m, Imm16(s)))    \* LD A,(nn)
      [] opcode = 251 -> ei(s)
      [] opcode = 254 -> cp_a_r(s, Imm8(s))                      \* cp_a_n
      [] OTHER -> unknown_opcode(s)

----------------------------------------------------------------------------
(* Post-instruction bookkeeping, step and interrupt dispatch.              *)

\* cycles charged for an opcode: the table entry, or the CB table entry of
\* the byte at PC + 1 read after PC has been advanced
charged_cycles(s, opcode) ==
    IF opcode = 203
    THEN OPCODE_DURATION_CB[read_8(s.m, add_u16(PCof(s), 1)) + 1]
    ELSE OPCODE_DURATION[opcode + 1]

\* PC update of handle_post_instruction
advance_pc(s, opcode) ==
    IF opcode \notin pc_modifying_opcodes
    THEN IF s.c.halt_bug
         THEN [s EXCEPT !.c.halt_bug = FALSE]
         ELSE SetR16(s, "PC", add_u16(PCof(s), OPCODE_LENGTHS[opcode + 1]))
    ELSE s

\* returns the new state and the cycles
handle_post_instruction(s, opcode) ==
    LET s1 == advance_pc(s, opcode)
        cyc == charged_cycles(s1, opcode)
    IN  [s |-> [s1 EXCEPT !.c.cycles = s1.c.cycles + cyc], cycles |-> cyc]

\* the EI latch applied at the end of step to the state post-instruction
\* handling has left; the result of step
apply_ei(post, opcode) ==
    [s |-> IF post.s.c.ei_pending
           THEN [post.s EXCEPT !.c.registers.ime = 1, !.c.ei_pending = FALSE]
           ELSE post.s,
     cycles |-> post.cycles,
     opcode |-> opcode]

\* Cpu::step: returns the new state, the cycles and the opcode executed
\* (256 when the CPU stayed halted and fetched nothing)
step(s) ==
    LET wake == BitAnd(BitAnd(read_8(s.m, 65535), read_8(s.m, 65295)), 31) # 0
    IN  IF s.c.halted /\ ~wake
        THEN [s |-> s, cycles |-> 4, opcode |-> 256]
        ELSE LET s0 == [s EXCEPT !.c.halted = FALSE]
                 opcode == read_8(s0.m, PCof(s0))
             IN  apply_ei(handle_post_instruction(execute(opcode, s0), opcode), opcode)

first_pending_highest(pending) == CHOOSE i \in 0..4 : Bit(pending, i) = 1 /\ \A j \in (i + 1)..4 : Bit(pending, j) = 0

\* index serviced among the pending bits: the lowest set bit
first_pending(pending) == CHOOSE i \in 0..4 : Bit(pending, i) = 1 /\ \A j \in 0..(i - 1) : Bit(pending, j) = 0

\* bits of IF left after servicing interrupt i
if_after_service(if_reg, interrupt) == if_reg - Bit(if_reg, interrupt) * (2 ^ interrupt)

\* clears halted, IME and ei_pending, clears the IF bit, pushes PC, jumps
\* to the vector and charges 20 cycles
service_interrupt(s, interrupt) ==
    LET sp == sub_u16(s.c.registers.sp, 2)
    IN  [c |-> [s.c EXCEPT !.halted = FALSE,
                           !.ei_pending = FALSE,
                           !.registers = [@ EXCEPT !.ime = 0, !.sp = sp,
                                                   !.pc = 64 + interrupt * 8],
                           !.cycles = @ + 20],
         m |-> write_16(write_8(s.m, 65295,
                                if_after_service(read_8(s.m, 65295), interrupt)),
                        sp, PCof(s))]

ime_blocks_never(s) == FALSE

\* with IME disabled handle_interrupts returns before vectoring
ime_blocks(s) == s.c.registers.ime = 0

\* request bits without the STAT latch
request_flags_no_stat(m) ==
    B2N(m.ppu.vblank_interrupt)
    + 4 * B2N(m.timer.interrupt_pending) + 8 * B2N(m.serial.interrupt_pending)
    + 16 * B2N(m.joypad.interrupt_requested)

\* request bits sampled from the peripheral latches
request_flags(m) ==
    B2N(m.ppu.vblank_interrupt) + 2 * B2N(m.ppu.stat_interrupt)
    + 4 * B2N(m.timer.interrupt_pending) + 8 * B2N(m.serial.interrupt_pending)
    + 16 * B2N(m.joypad.interrupt_requested)

\* part 1 of handle_interrupts: clear the latches and post them into IF
sync_flags(m) ==
    LET rf == request_flags(m)
        m1 == [m EXCEPT !.ppu.vblank_interrupt = FALSE,
                        !.ppu.stat_interrupt = FALSE,
                        !.timer.interrupt_pending = FALSE,
                        !.serial.interrupt_pending = FALSE,
                        !.joypad.interrupt_requested = FALSE]
    IN  IF rf # 0 THEN write_8(m1, 65295, BitOr(read_8(m1, 65295), rf)) ELSE m1

\* the end of handle_interrupts: s2 is the state after the wake-up from HALT
vector_pending(s2, pending) ==
    IF ime_blocks(s2) THEN s2
    ELSE IF pending = 0 THEN s2
    ELSE IF pending % 32 = 0 THEN s2
    ELSE service_interrupt(s2, first_pending(pending))

\* part 2 of handle_interrupts: s1 is the state with the latches merged into
\* IF, pending is IE & IF
dispatch_pending(s1, pending) ==
    IF s1.c.registers.ime = 0 /\ ~s1.c.halted
    THEN s1
    ELSE vector_pending(IF s1.c.halted /\ pending # 0
                        THEN [s1 EXCEPT !.c.halted = FALSE]
                        ELSE s1,
                        pending)

handle_interrupts(s) ==
    dispatch_pending([s EXCEPT !.m = sync_flags(s.m)],
                     BitAnd(read_8(sync_flags(s.m), 65535), read_8(sync_flags(s.m), 65295)))

----------------------------------------------------------------------------
(* Post-boot initialisation (Memory::init_post_boot_state and the register *)
(* set-up of the drivers).                                                 *)

post_boot_writes ==
    << <<65285, 0>>, <<65286, 0>>, <<65287, 0>>, <<65284, 0>>,
       <<65296, 128>>, <<65297, 191>>, <<65298, 243>>, <<65300, 191>>,
       <<65302, 63>>, <<65303, 0>>, <<65305, 191>>, <<65306, 127>>,
       <<65307, 255>>, <<65308, 159>>, <<65310, 191>>, <<65312, 255>>,
       <<65313, 0>>, <<65314, 0>>, <<65315, 191>>, <<65316, 119>>,
       <<65317, 243>>, <<65318, 241>>,
       <<65344, 145>>, <<65345, 133>>, <<65346, 0>>, <<65347, 0>>,
       <<65348, 0>>, <<65349, 0>>, <<65351, 252>>, <<65352, 255>>,
       <<65353, 255>>, <<65354, 0>>, <<65355, 0>>,
       <<65295, 225>>, <<65535, 0>>,
       <<65281, 0>>, <<65282, 126>> >>

\* the bus writes ws[lo..hi] in order, the first half before the second
RECURSIVE write_all(_, _, _, _)
write_all(m, ws, lo, hi) ==
    IF lo > hi THEN m
    ELSE IF lo = hi THEN write_8(m, ws[lo][1], ws[lo][2])
    ELSE LET mid == (lo + hi) \div 2
             m1 == write_all(m, ws, lo, mid)
         IN  \* a write keeps the fields of Memory: the test holds, and has
             \* the first half evaluated before the second starts
             IF DOMAIN m1 = DOMAIN m THEN write_all(m1, ws, mid + 1, hi) ELSE m1

init_post_boot_state(m) ==
    LET m1 == write_all(m, post_boot_writes, 1, Len(post_boot_writes))
        m2 == [m1 EXCEPT !.main_memory = Put(m1.main_memory, 65535, 0)]
    IN  [m2 EXCEPT !.main_memory = Put(m2.main_memory, 65360, 1)]

\* register set-up of main.rs / final_test.rs; ime is 1 in main.rs only
post_boot_cpu(ime) ==
    LET r1 == write_r16(CpuNew.registers, "AF", 432)
        r2 == write_r16(r1, "BC", 19)
        r3 == write_r16(r2, "DE", 216)
        r4 == write_r16(r3, "HL", 333)
        r5 == write_r16(r4, "SP", 65534)
        r6 == write_r16(r5, "PC", 256)
    IN  [CpuNew EXCEPT !.registers = [r6 EXCEPT !.ime = ime]]

----------------------------------------------------------------------------
(* Inputs: cartridge images and the machine state a program has set up     *)
(* when the exploration starts.                                            *)

\* ROM image with the bytes of prog at 0x0100 and zeros elsewhere
RomAt(prog) ==
    [a \in {255 + i : i \in {j \in 1..Len(prog) : prog[j] # 0}} |-> prog[a - 255]]

\* one instruction of every opcode with two operand words, and every CB
\* sub-opcode
ProbePrograms ==
    {<<op, n[1], n[2]>> : op \in (0..255) \ {203}, n \in {<<2, 192>>, <<254, 192>>}}
    \cup {<<203, cb, 0>> : cb \in 0..255}

ScenarioPrograms ==
    { <<251, 0, 243>>,            \* EI ; NOP ; DI
      <<251, 243, 0>>,            \* EI ; DI ; NOP
      <<118, 60, 0>>,             \* HALT ; INC A ; NOP
      <<243, 118, 60>>,           \* DI ; HALT ; INC A
      <<251, 118, 60>>,           \* EI ; HALT ; INC A
      <<1, 255, 18, 197, 241>>,   \* LD BC,0x12FF ; PUSH BC ; POP AF
      <<62, 255, 224, 5, 118>>,   \* LD A,0xFF ; LDH (0x05),A ; HALT
      <<217, 0, 0>> }             \* RETI

\* the machine after post-boot initialisation and the given set-up writes
Machine(prog, ime, f, ie, ifv, latch, tsetup, sp) ==
    LET m0 == init_post_boot_state(MemoryNew(RomAt(prog)))
        m1 == write_8(write_8(m0, 65535, ie), 65295, ifv)
        m2 == write_8(write_8(m1, 65287, tsetup[1]), 65285, tsetup[2])
        m3 == [m2 EXCEPT !.ppu.vblank_interrupt = latch[1],
                         !.ppu.stat_interrupt = latch[2],
                         !.joypad.interrupt_requested = latch[3]]
        c0 == post_boot_cpu(ime)
        c1 == [c0 EXCEPT !.registers = write_r16(write_r8(c0.registers, "F", f), "SP", sp)]
    IN  [c |-> c1, m |-> m3]

\* latch: the peripheral latches <<vblank, stat, joypad>> raised before the
\* first dispatch; ts: <<TAC, TIMA>> written by the program beforehand
InitCpu ==
    /\ \E s0 \in
          {Machine(prog, ime, f, ie, ifv, latch, ts, sp) :
              prog \in ScenarioPrograms, ime \in {0, 1}, f \in {0, 176},
              ie \in {0, 4, 31, 224}, ifv \in {225, 224, 228},
              latch \in {<<FALSE, FALSE, FALSE>>, <<TRUE, FALSE, FALSE>>, <<FALSE, TRUE, TRUE>>},
              ts \in {<<0, 0>>, <<5, 255>>}, sp \in {65534, 53250, 0}}
          \cup
          {Machine(prog, ime, f, ie, 225, <<FALSE, FALSE, FALSE>>, <<0, 0>>, 65534) :
              prog \in ProbePrograms, ime \in {0, 1}, f \in {0, 176}, ie \in {0, 31}} :
          /\ cpu = s0.c
          /\ mem = s0.m
    /\ phase = "step"
    /\ tick_left = 0
    /\ calls = 0
    /\ last = [call |-> "none"]

----------------------------------------------------------------------------
(* The driver loop of tests/final_test.rs: step, timer tick with the       *)
(* cycles of the step, interrupt dispatch.                                 *)

Step ==
    /\ phase = "step"
    /\ calls < MaxSteps
    /\ \E r \in {step([c |-> cpu, m |-> mem])} :
           /\ cpu' = r.s.c
           /\ mem' = r.s.m
           /\ last' = [call |-> "step", opcode |-> r.opcode, ret |-> r.cycles,
                       pre |-> [c |-> cpu, m |-> mem]]
    /\ phase' = "tick"
    /\ calls' = calls + 1
    /\ UNCHANGED tick_left

TimerTick ==
    /\ phase = "tick"
    /\ mem' = [mem EXCEPT !.timer = timer_tick(mem.timer, last.ret)]
    /\ last' = [call |-> "tick", ret |-> last.ret, pre |-> [c |-> cpu, m |-> mem]]
    /\ phase' = "irq"
    /\ UNCHANGED <<cpu, tick_left, calls>>

HandleInterrupts ==
    /\ phase = "irq"
    /\ \E r \in {handle_interrupts([c |-> cpu, m |-> mem])} :
           /\ cpu' = r.c
           /\ mem' = r.m
    /\ last' = [call |-> "handle_interrupts", pre |-> [c |-> cpu, m |-> mem]]
    /\ phase' = "step"
    /\ UNCHANGED <<tick_left, calls>>

Next == Step \/ TimerTick \/ HandleInterrupts

Spec == InitCpu /\ [][Next]_vars

----------------------------------------------------------------------------
(* The timer driven on its own through Timer::tick and the bus writes to   *)
(* 0xFF04..0xFF07; the T-cycle loop of tick is one transition per          *)
(* iteration.                                                              *)

\* the register writes tried: DIV, TIMA, TMA and TAC with two or three values each
TimerWrites ==
    {<<65284, v>> : v \in {0, 255}} \cup {<<65285, v>> : v \in {255, 16}}
    \cup {<<65286, v>> : v \in {66, 7}} \cup {<<65287, v>> : v \in {5, 1, 7}}

InitTimer ==
    /\ cpu = CpuNew
    /\ mem = MemoryNew(<<>>)
    /\ phase = "timer"
    /\ tick_left = 0
    /\ calls = 0
    /\ last = [call |-> "none"]

TimerWriteCall ==
    /\ phase = "timer"
    /\ tick_left = 0
    /\ calls < MaxTimerCalls
    /\ \E w \in TimerWrites :
          /\ mem' = write_8(mem, w[1], w[2])
          /\ last' = [call |-> "write", address |-> w[1], value |-> w[2], pre |-> mem.timer]
    /\ calls' = calls + 1
    /\ UNCHANGED <<cpu, phase, tick_left>>

TimerTickCall ==
    /\ phase = "timer"
    /\ tick_left = 0
    /\ calls < MaxTimerCalls
    /\ \E m_cycles \in 1..MaxTickM :
          /\ tick_left' = m_cycles * 4
          /\ last' = [call |-> "tick", m_cycles |-> m_cycles, pre |-> mem.timer]
    /\ calls' = calls + 1
    /\ UNCHANGED <<cpu, mem, phase>>

TimerTickCycle ==
    /\ phase = "timer"
    /\ tick_left > 0
    /\ mem' = [mem EXCEPT !.timer = tick_cycle(mem.timer)]
    /\ tick_left' = tick_left - 1
    /\ last' = [call |-> "tick_cycle", pre |-> mem.timer]
    /\ UNCHANGED <<cpu, phase, calls>>

NextTimer == TimerWriteCall \/ TimerTickCall \/ TimerTickCycle

SpecTimer == InitTimer /\ [][NextTimer]_vars

----------------------------------------------------------------------------
(* The bus driven on its own: writes through Memory::write_8 to RAM, VRAM, *)
(* OAM and the I/O registers, interleaved with calls to Ppu::step.         *)

MaxBusCalls == 3

\* the PPU after n calls of Ppu::step with a third of a scanline each, the
\* first half of the calls before the second
RECURSIVE ppu_run(_, _)
ppu_run(p, n) ==
    IF n = 0 THEN p
    ELSE IF n = 1 THEN ppu_step(p, 152)
    ELSE LET p1 == ppu_run(p, n \div 2)
         IN  IF DOMAIN p1 = DOMAIN p THEN ppu_run(p1, n - (n \div 2)) ELSE p1

\* the writes tried: work RAM, VRAM, OAM, the OAM-DMA register, P1 and the
\* readable I/O registers with two values each
BusWrites ==
    {<<49152, 1>>, <<49311, 160>>, <<65094, 192>>, <<65040, 119>>, <<65024, 9>>,
     <<32768, 60>>, <<40959, 60>>,
     <<65280, 32>>, <<65280, 16>>, <<65280, 255>>, <<65280, 0>>}
    \cup {<<a, v>> : a \in {65281, 65282, 65285, 65286, 65287} \cup (65344..65347)
                           \cup {65349} \cup (65351..65355),
                     v \in {165, 90}}

\* the writes tried on the cartridge region and on I/O addresses that no
\* component implements
DecodeWrites ==
    {<<8192, 0>>, <<8192, 2>>, <<12288, 11>>, <<16383, 12>>, <<8192, 63>>, <<16383, 32>>,
     <<0, 5>>, <<8191, 10>>, <<16384, 3>>, <<32767, 7>>, <<336, 9>>,
     <<65283, 18>>, <<65288, 52>>, <<65407, 86>>}

\* a 512 KiB cartridge image, given by its bytes that are not 0
CartRom ==
    (336 :> 1) @@ (16384 :> 17) @@ (32767 :> 18) @@ (32768 :> 33) @@ (49151 :> 34)
    @@ (196606 :> 177) @@ (196607 :> 178) @@ (196608 :> 193) @@ (524287 :> 242)

\* the post-boot bus with the PPU at the start of a frame or on the last
\* visible line; the address decoding is driven on a bus with a cartridge
InitBus ==
    /\ cpu = CpuNew
    /\ \/ /\ phase = "bus"
          /\ \E n \in {0, 431} :
                \E m \in {init_post_boot_state(MemoryNew(<<>>))} :
                    mem = [m EXCEPT !.ppu = ppu_run(m.ppu, n)]
       \/ /\ phase = "decode"
          /\ mem = init_post_boot_state(MemoryNew(CartRom))
    /\ tick_left = 0
    /\ calls = 0
    /\ last = [call |-> "none"]

BusWrite ==
    /\ phase \in {"bus", "decode"}
    /\ calls < MaxBusCalls
    /\ \E w \in IF phase = "bus" THEN BusWrites ELSE DecodeWrites :
          /\ mem' = write_8(mem, w[1], w[2])
          /\ last' = [call |-> "write", address |-> w[1], value |-> w[2], pre |-> mem]
    /\ calls' = calls + 1
    /\ UNCHANGED <<cpu, phase, tick_left>>

BusPpuStep ==
    /\ phase \in {"bus", "decode"}
    /\ calls < MaxBusCalls
    /\ \E cycles \in {80, 152} :
          /\ mem' = [mem EXCEPT !.ppu = ppu_step(mem.ppu, cycles)]
          /\ last' = [call |-> "ppu_step", cycles |-> cycles, pre |-> mem]
    /\ calls' = calls + 1
    /\ UNCHANGED <<cpu, phase, tick_left>>

NextBus == BusWrite \/ BusPpuStep

SpecBus == InitBus /\ [][NextBus]_vars

----------------------------------------------------------------------------
(* The joypad and the serial port called directly, as the front end        *)
(* (src/src/main.rs) and the unit tests call them (SpecIo).                 *)

MaxJoypadCalls == 4
MaxSerialCalls == 6

\* a get_output that removes the newest byte
get_output_newest(s) ==
    IF s.output_buffer # <<>>
    THEN [serial |-> [s EXCEPT !.output_buffer = SubSeq(s.output_buffer, 1, Len(s.output_buffer) - 1)],
          ret |-> <<s.output_buffer[Len(s.output_buffer)]>>]
    ELSE [serial |-> s, ret |-> <<>>]

\* Serial::get_output: the Option it returns is a sequence of length 0 or 1
get_output(s) ==
    IF s.output_buffer # <<>>
    THEN [serial |-> [s EXCEPT !.output_buffer = Tail(s.output_buffer)],
          ret |-> <<Head(s.output_buffer)>>]
    ELSE [serial |-> s, ret |-> <<>>]

InitIo ==
    /\ cpu = CpuNew
    /\ mem = MemoryNew(<<>>)
    /\ phase \in {"joypad", "serial"}
    /\ tick_left = 0
    /\ calls = 0
    /\ last = [call |-> "none"]

JoypadPress ==
    /\ phase = "joypad" /\ calls < MaxJoypadCalls
    /\ \E button \in DOMAIN JoypadNew.buttons :
          /\ mem' = [mem EXCEPT !.joypad = press(mem.joypad, button)]
          /\ last' = [call |-> "press", button |-> button, pre |-> mem]
    /\ calls' = calls + 1
    /\ UNCHANGED <<cpu, phase, tick_left>>

JoypadRelease ==
    /\ phase = "joypad" /\ calls < MaxJoypadCalls
    /\ \E button \in DOMAIN JoypadNew.buttons :
          /\ mem' = [mem EXCEPT !.joypad = release(mem.joypad, button)]
          /\ last' = [call |-> "release", button |-> button, pre |-> mem]
    /\ calls' = calls + 1
    /\ UNCHANGED <<cpu, phase, tick_left>>

JoypadWrite ==
    /\ phase = "joypad" /\ calls < MaxJoypadCalls
    /\ \E value \in {0, 16, 32, 48, 255} :
          /\ mem' = [mem EXCEPT !.joypad = joypad_write(mem.joypad, value)]
          /\ last' = [call |-> "write", value |-> value, pre |-> mem]
    /\ calls' = calls + 1
    /\ UNCHANGED <<cpu, phase, tick_left>>

SerialWrite ==
    /\ phase = "serial" /\ calls < MaxSerialCalls
    /\ \E w \in ({65281} \X {0, 85, 65, 66, 200}) \cup ({65282} \X {129, 128, 1, 127}) :
          /\ mem' = [mem EXCEPT !.serial = serial_write(mem.serial, w[1], w[2])]
          /\ last' = [call |-> "write", address |-> w[1], value |-> w[2], pre |-> mem]
    /\ calls' = calls + 1
    /\ UNCHANGED <<cpu, phase, tick_left>>

SerialGetOutput ==
    /\ phase = "serial" /\ calls < MaxSerialCalls
    /\ \E r \in {get_output(mem.serial)} :
          /\ mem' = [mem EXCEPT !.serial = r.serial]
          /\ last' = [call |-> "get_output", ret |-> r.ret, pre |-> mem]
    /\ calls' = calls + 1
    /\ UNCHANGED <<cpu, phase, tick_left>>

NextIo == JoypadPress \/ JoypadRelease \/ JoypadWrite \/ SerialWrite \/ SerialGetOutput

SpecIo == InitIo /\ [][NextIo]_vars

----------------------------------------------------------------------------
(* The PPU stepped alone over a frame, LCD on and no register writes      *)
(* (SpecPpu); calls counts the cycles passed to Ppu::step so far.          *)

MaxFrameCycles == 70680

InitPpu ==
    /\ cpu = CpuNew
    /\ mem = init_post_boot_state(MemoryNew(<<>>))
    /\ phase = "ppu"
    /\ tick_left = 0
    /\ calls = 0
    /\ last = [call |-> "none"]

PpuStep ==
    /\ phase = "ppu"
    /\ calls < MaxFrameCycles
    /\ \E cycles \in {1, 4, 12, 24} :
          /\ mem' = [mem EXCEPT !.ppu = ppu_step(mem.ppu, cycles)]
          /\ last' = [call |-> "ppu_step", cycles |-> cycles]
          /\ calls' = calls + cycles
    /\ UNCHANGED <<cpu, phase, tick_left>>

SpecPpu == InitPpu /\ [][PpuStep]_vars

----------------------------------------------------------------------------
(* The sprite renderer applied to a line of two sprites (SpecSprites).     *)

MaxRenders == 1

\* sprite 0 on lines 0-7 and sprite 1 on lines 0-7 or 1-8, 8x8, with tiles
\* whose rows 0 and 1 hold colours 1, 2 and 3
InitSprites ==
    /\ cpu = CpuNew
    /\ \E ax \in {8, 10}, aattr \in {0, 16, 32, 128}, by \in {16, 17},
          bx \in {8, 12, 20}, battr \in {0, 16} :
          \E m \in {init_post_boot_state(MemoryNew(<<>>))} :
              mem = [m EXCEPT
                        !.ppu.oam = (0 :> 16) @@ (1 :> ax) @@ (2 :> 1) @@ (3 :> aattr)
                                    @@ (4 :> by) @@ (5 :> bx) @@ (6 :> 2) @@ (7 :> battr),
                        !.ppu.vram = (16 :> 255) @@ (18 :> 15) @@ (33 :> 255)
                                     @@ (34 :> 240) @@ (35 :> 240),
                        !.ppu.obp0 = 228,
                        !.ppu.obp1 = 27]
    /\ phase = "sprites"
    /\ tick_left = 0
    /\ calls = 0
    /\ last = [call |-> "none"]

\* Ppu::render_sprites_line on a line where nothing or two background pixels
\* of colour 1 and 2 were drawn
RenderSprites ==
    /\ phase = "sprites"
    /\ calls < MaxRenders
    /\ \E ly \in {0, 1}, bg \in {<<>>, (8 :> 1) @@ (9 :> 2)} :
          last' = [call |-> "render_sprites_line", ly |-> ly, bg |-> bg,
                   ret |-> render_sprites_line(bg, mem.ppu, bg, ly)]
    /\ calls' = calls + 1
    /\ UNCHANGED <<cpu, mem, phase, tick_left>>

SpecSprites == InitSprites /\ [][RenderSprites]_vars

----------------------------------------------------------------------------
(* Cpu::step called on consecutive instructions, with interrupts off       *)
(* (SpecPair); last.first is the machine before the first one.             *)

\* PUSH rr ; POP ss for all pairs, and ADD A,n ; SUB A,n
PairPrograms ==
    {<<op1, op2>> : op1 \in {197, 213, 229, 245}, op2 \in {193, 209, 225, 241}}
    \cup {<<198, n, 214, n>> : n \in {0, 1, 15, 16, 128, 255}}

InitPair ==
    /\ \E prog \in PairPrograms, a \in {0, 1, 15, 128, 255}, f \in {0, 176, 240},
          sp \in {65534, 53250, 49154} :
          \E s0 \in {Machine(prog, 0, f, 0, 225, <<FALSE, FALSE, FALSE>>, <<0, 0>>, sp)} :
              /\ cpu = [s0.c EXCEPT !.registers = write_r8(s0.c.registers, "A", a)]
              /\ mem = s0.m
    /\ phase = "pair"
    /\ tick_left = 0
    /\ calls = 0
    /\ last = [call |-> "none"]

PairStep ==
    /\ phase = "pair"
    /\ calls < MaxSteps
    /\ \E r \in {step([c |-> cpu, m |-> mem])} :
           /\ cpu' = r.s.c
           /\ mem' = r.s.m
           /\ last' = [call |-> "step", opcode |-> r.opcode, ret |-> r.cycles,
                       pre |-> [c |-> cpu, m |-> mem],
                       first |-> IF calls = 0 THEN [c |-> cpu, m |-> mem] ELSE last.first,
                       opcodes |-> IF calls = 0 THEN <<r.opcode>>
                                   ELSE Append(last.opcodes, r.opcode)]
    /\ calls' = calls + 1
    /\ UNCHANGED <<phase, tick_left>>

SpecPair == InitPair /\ [][PairStep]_vars

----------------------------------------------------------------------------
(* One instruction at the edges of the 16-bit address space.  The handlers *)
(* below cpu.rs 252 and Memory::read_16 compute addresses with the plain   *)
(* `+` and `-` of u16: a build with overflow checks (the default of the    *)
(* test profile) aborts the step when the result leaves 0..65535, a build  *)
(* without them wraps.  Both outcomes are transitions.                     *)

MaxWrapSteps == 1

\* PUSH BC, CALL nn, POP BC, RET, RETI, LD A,n, LD A,(nn)
WrapOpcodes == {197, 205, 193, 201, 217, 62, 250}

\* Memory::read_16 evaluates address + 1
read_16_overflows(address) == address + 1 > 65535

\* the step of this opcode evaluates a plain u16 `+` or `-` whose result is
\* outside 0..65535
unchecked_overflow(s, opcode) ==
    LET pc == PCof(s)
        sp == s.c.registers.sp
    IN  CASE opcode = 197 -> sp - 2 < 0                                        \* push
          [] opcode = 193 -> read_16_overflows(sp) \/ sp + 2 > 65535           \* pop
          [] opcode \in {201, 217} -> read_16_overflows(sp) \/ sp + 2 > 65535  \* ret, reti
          [] opcode = 205 ->                                                   \* call_nn
                \/ pc + 1 > 65535 \/ read_16_overflows(pc + 1)
                \/ pc + 3 > 65535 \/ sp - 2 < 0
          [] opcode = 62 -> pc + 1 > 65535                                     \* ld_r8_n
          [] opcode = 250 -> pc + 1 > 65535 \/ read_16_overflows(pc + 1)       \* 0xFA
          [] OTHER -> FALSE

\* the opcode is at 0x0100 and, through IE, at 0xFFFF
InitWrap ==
    /\ \E op \in WrapOpcodes, sp \in {0, 1, 65534, 65535, 53250}, pc \in {256, 65535},
          f \in {0, 176}, bc \in {19, 43981} :
          \E s0 \in {Machine(<<op, 2, 192>>, 0, f, op, 225, <<FALSE, FALSE, FALSE>>, <<0, 0>>, sp)} :
              /\ cpu = [s0.c EXCEPT !.registers = write_r16(write_r16(s0.c.registers, "PC", pc), "BC", bc)]
              /\ mem = s0.m
    /\ phase = "wrap"
    /\ tick_left = 0
    /\ calls = 0
    /\ last = [call |-> "none"]

\* the step in a build without overflow checks
WrapStep ==
    /\ phase = "wrap"
    /\ calls < MaxWrapSteps
    /\ \E r \in {step([c |-> cpu, m |-> mem])} :
           /\ cpu' = r.s.c
           /\ mem' = r.s.m
           /\ last' = [call |-> "step", opcode |-> r.opcode, ret |-> r.cycles,
                       trapped |-> FALSE, pre |-> [c |-> cpu, m |-> mem]]
    /\ calls' = calls + 1
    /\ UNCHANGED <<phase, tick_left>>

\* the step in a build with overflow checks: the process panics in the handler
WrapTrap ==
    /\ phase = "wrap"
    /\ calls < MaxWrapSteps
    /\ \E opcode \in {read_8(mem, cpu.registers.pc)} :
           /\ unchecked_overflow([c |-> cpu, m |-> mem], opcode)
           /\ last' = [call |-> "step", opcode |-> opcode, ret |-> 0,
                       trapped |-> TRUE, pre |-> [c |-> cpu, m |-> mem]]
    /\ phase' = "trapped"
    /\ calls' = calls + 1
    /\ UNCHANGED <<cpu, mem, tick_left>>

NextWrap == WrapStep \/ WrapTrap

SpecWrap == InitWrap /\ [][NextWrap]_vars

----------------------------------------------------------------------------
(* The PPU around the ends of the modes: a program sets LCDC, STAT, WY and *)
(* WX, the PPU runs into a scanline, handle_interrupts takes the latches,  *)
(* and then the PPU is stepped by a few cycles or a register is written.   *)

MaxLcdCalls == 3

\* the PPU register writes tried: LCD off, LCD on with the window, LY, and
\* STAT with the LYC and no mode interrupt enabled
LcdWrites == {<<65344, 17>>, <<65344, 177>>, <<65348, 77>>, <<65345, 64>>}

InitLcd ==
    /\ cpu = CpuNew
    /\ \E lcdc \in {145, 177}, stat \in {0, 8, 16, 32}, wy \in {0, 143}, wx \in {7, 167},
          n \in {3, 4, 5, 430, 431, 434, 461}, adv \in {0, 76, 150} :
          \E m0 \in {init_post_boot_state(MemoryNew(<<>>))} :
          \E m1 \in {write_8(write_8(write_8(write_8(m0, 65344, lcdc), 65345, stat),
                                     65354, wy), 65355, wx)} :
          \E p \in {ppu_step(ppu_run(m1.ppu, n), adv)} :
              mem = sync_flags([m1 EXCEPT !.ppu = p])
    /\ phase = "lcd"
    /\ tick_left = 0
    /\ calls = 0
    /\ last = [call |-> "none"]

LcdStep ==
    /\ phase = "lcd"
    /\ calls < MaxLcdCalls
    /\ \E cycles \in {4, 24} :
          /\ mem' = [mem EXCEPT !.ppu = ppu_step(mem.ppu, cycles)]
          /\ last' = [call |-> "ppu_step", cycles |-> cycles, pre |-> mem.ppu]
    /\ calls' = calls + 1
    /\ UNCHANGED <<cpu, phase, tick_left>>

LcdWrite ==
    /\ phase = "lcd"
    /\ calls < MaxLcdCalls
    /\ \E w \in LcdWrites :
          /\ mem' = write_8(mem, w[1], w[2])
          /\ last' = [call |-> "write", address |-> w[1], value |-> w[2], pre |-> mem.ppu]
    /\ calls' = calls + 1
    /\ UNCHANGED <<cpu, phase, tick_left>>

NextLcd == LcdStep \/ LcdWrite

SpecLcd == InitLcd /\ [][NextLcd]_vars

----------------------------------------------------------------------------
(* Properties of the CPU under the driver loop (Spec).                     *)

\* C1: EI delay.  Starting from IME = 0, the step that executes EI (0xFB)
\* leaves IME at 0 with the ei_pending latch set; IME becomes 1 only at the
\* end of the step of the instruction that follows.
C1_EiDelay ==
    (last.call = "step" /\ last.opcode = 251 /\ last.pre.c.registers.ime = 0)
        => (cpu.registers.ime = 0 /\ cpu.ei_pending)

\* C2: HALT bug.  When step executes HALT (0x76) with IME = 0 and
\* IE & IF & 0x1F # 0, the CPU is not halted, the halt_bug latch is set and
\* PC has moved past the HALT opcode, so that the next step fetches the
\* instruction that follows the HALT.
C2_HaltBug ==
    (/\ last.call = "step"
     /\ last.opcode = 118
     /\ last.pre.c.registers.ime = 0
     /\ BitAnd(BitAnd(read_8(last.pre.m, 65535), read_8(last.pre.m, 65295)), 31) # 0)
        => (/\ ~cpu.halted
            /\ cpu.halt_bug
            /\ cpu.registers.pc = add_u16(last.pre.c.registers.pc, 1))

\* C3 (as stated): with IF taken after the peripheral latches have been
\* merged into it, a call to handle_interrupts with IME = 1 and
\* IE & IF & 0x1F # 0 services the interrupt of the lowest set bit i; then
\* IME = 0, IF has lost bit i and nothing else, SP is down by 2 with the old
\* PC stored at the new SP, PC = 0x0040 + 8 * i, and halted and ei_pending
\* are false.  With no such pending bit nothing is serviced.
C3_DispatchAsStated ==
    last.call = "handle_interrupts" =>
        LET pre == last.pre
            ie == read_8(pre.m, 65535)
            if0 == read_8(sync_flags(pre.m), 65295)
            pending == BitAnd(BitAnd(ie, if0), 31)
        IN  IF pre.c.registers.ime = 1 /\ pending # 0
            THEN \E i \in 0..4 :
                    /\ Bit(pending, i) = 1
                    /\ \A j \in 0..(i - 1) : Bit(pending, j) = 0
                    /\ cpu.registers.ime = 0
                    /\ read_8(mem, 65295) = if0 - 2 ^ i
                    /\ cpu.registers.sp = sub_u16(pre.c.registers.sp, 2)
                    /\ read_16(mem, cpu.registers.sp) = pre.c.registers.pc
                    /\ cpu.registers.pc = 64 + 8 * i
                    /\ ~cpu.halted
                    /\ ~cpu.ei_pending
            ELSE /\ cpu.registers = pre.c.registers
                 /\ cpu.cycles = pre.c.cycles
                 /\ read_8(mem, 65295) = if0

\* C3 (amended): as above, except that the old PC is read back from the new
\* SP only when both bytes of the new stack slot are in work RAM or high RAM
\* (0xC000..0xFDFF, 0xFF80..0xFFFF), and IF is the merged IF without bit i
\* only when the slot does not cover IF itself: the push is a bus write, and
\* a write below 0x8000 stores nothing.  SP decreases modulo 2^16.
C3_Dispatch ==
    last.call = "handle_interrupts" =>
        LET pre == last.pre
            ie == read_8(pre.m, 65535)
            if0 == read_8(sync_flags(pre.m), 65295)
            pending == BitAnd(BitAnd(ie, if0), 31)
            slot == {cpu.registers.sp, add_u16(cpu.registers.sp, 1)}
            ram == (49152..65023) \cup (65408..65535)
        IN  IF pre.c.registers.ime = 1 /\ pending # 0
            THEN \E i \in 0..4 :
                    /\ Bit(pending, i) = 1
                    /\ \A j \in 0..(i - 1) : Bit(pending, j) = 0
                    /\ cpu.registers.ime = 0
                    /\ 65295 \notin slot => read_8(mem, 65295) = if0 - 2 ^ i
                    /\ cpu.registers.sp = sub_u16(pre.c.registers.sp, 2)
                    /\ slot \subseteq ram => read_16(mem, cpu.registers.sp) = pre.c.registers.pc
                    /\ mem = write_16(write_8(sync_flags(pre.m), 65295, if0 - 2 ^ i),
                                      cpu.registers.sp, pre.c.registers.pc)
                    /\ cpu.registers.pc = 64 + 8 * i
                    /\ ~cpu.halted
                    /\ ~cpu.ei_pending
            ELSE /\ cpu.registers = pre.c.registers
                 /\ cpu.cycles = pre.c.cycles
                 /\ read_8(mem, 65295) = if0

\* a dispatch with several enabled requests pending, the lowest being STAT
C3_Witness ==
    /\ last.call = "handle_interrupts"
    /\ last.pre.c.registers.ime = 1
    /\ cpu.registers.pc = 72
    /\ cpu.registers.ime = 0
    /\ read_16(mem, cpu.registers.sp) = last.pre.c.registers.pc
    /\ BitAnd(BitAnd(read_8(mem, 65535), read_8(mem, 65295)), 31) # 0

\* C4: handle_interrupts called with IME = 0, the CPU halted and an enabled
\* interrupt pending clears the halted flag and nothing else: the registers
\* (PC, SP, IME), the cycle counter, the latches ei_pending and halt_bug, the
\* stack contents and the pending IF bits are unchanged.
C4_WakeOnly ==
    (/\ last.call = "handle_interrupts"
     /\ last.pre.c.registers.ime = 0
     /\ last.pre.c.halted
     /\ BitAnd(BitAnd(read_8(last.pre.m, 65535),
                      read_8(sync_flags(last.pre.m), 65295)), 31) # 0)
        => (/\ ~cpu.halted
            /\ cpu = [last.pre.c EXCEPT !.halted = FALSE]
            /\ read_8(mem, 65295) = read_8(sync_flags(last.pre.m), 65295)
            /\ read_16(mem, cpu.registers.sp) = read_16(last.pre.m, cpu.registers.sp)
            /\ mem.main_memory = sync_flags(last.pre.m).main_memory)

\* a halted CPU with IME = 0 woken by a timer interrupt raised while it slept
C4_Witness ==
    /\ last.call = "handle_interrupts"
    /\ last.pre.c.registers.ime = 0
    /\ last.pre.c.halted
    /\ last.pre.m.timer.interrupt_pending
    /\ Bit(read_8(mem, 65535), 2) = 1
    /\ ~cpu.halted

\* C5: in every reachable CPU state the low nibble of F is 0.
C5_FLowNibble ==
    /\ cpu.registers.af % 16 = 0
    /\ read_r8(cpu.registers, "F") % 16 = 0

\* POP AF has just loaded a word whose low nibble is not 0
C5_Witness ==
    /\ last.call = "step"
    /\ last.opcode = 241
    /\ read_16(last.pre.m, last.pre.c.registers.sp) % 16 # 0
    /\ cpu.registers.af \div 256 = read_8(last.pre.m, add_u16(last.pre.c.registers.sp, 1))

\* C6: every call to step returns a cycle count between 4 and 24.
C6_StepCycles ==
    last.call = "step" => (last.ret >= 4 /\ last.ret <= 24)

\* C7: for a conditional JR / JP / CALL / RET the cycles returned by step
\* depend on the branch: the taken execution is charged more than the
\* not-taken execution of the same opcode from the same state with the
\* condition flags inverted, 12 more for CALL cc and RET cc.
C7_TakenChargedMore ==
    (/\ last.call = "step"
     /\ last.opcode \in {32, 40, 48, 56, 192, 200, 208, 216,
                         194, 202, 210, 218, 196, 204, 212, 220})
        => \A other \in {step(SetR8(last.pre, "F", BitXor(Fof(last.pre), 144))).cycles},
              taken \in {cond_met(last.pre,
                                  IF (last.opcode \div 16) % 2 = 0 THEN "z" ELSE "c",
                                  (last.opcode \div 8) % 2 = 1)} :
              LET t == IF taken THEN last.ret ELSE other
                  n == IF taken THEN other ELSE last.ret
              IN  /\ t > n
                  /\ last.opcode \in {192, 200, 208, 216, 196, 204, 212, 220} => t = n + 12

----------------------------------------------------------------------------
(* Properties of the timer (SpecTimer).                                    *)

\* C8: timer reload delay.  The increment that overflows TIMA from 0xFF
\* leaves TIMA reading 0x00, starts a delay of 4 T-cycles and does not raise
\* the interrupt latch; each of the first three T-cycles of the delay leaves
\* TIMA and the latch as they are; the fourth loads TIMA with the value TMA
\* holds at that moment and raises the latch.
C8_ReloadDelay ==
    /\ mem.timer.overflow_cycles \in 0..4
    /\ last.call = "tick_cycle" =>
        LET pre == last.pre
            t == mem.timer
        IN  /\ (pre.overflow_cycles = 0 /\ pre.tima = 255 /\ t.tima # 255)
                  => (/\ read_8(mem, 65285) = 0
                      /\ t.overflow_cycles = 4
                      /\ t.interrupt_pending = pre.interrupt_pending)
            /\ (pre.overflow_cycles > 1)
                  => (/\ t.tima = pre.tima
                      /\ t.interrupt_pending = pre.interrupt_pending
                      /\ t.overflow_cycles = pre.overflow_cycles - 1)
            /\ (pre.overflow_cycles = 1)
                  => (/\ read_8(mem, 65285) = pre.tma
                      /\ t.interrupt_pending
                      /\ t.overflow_cycles = 0)
            /\ t.tma = pre.tma
    /\ (last.call = "write" /\ last.pre.tima = 255 /\ mem.timer.tima = 0
            /\ last.address # 65285)
          => (/\ mem.timer.overflow_cycles = 4
              /\ mem.timer.interrupt_pending = last.pre.interrupt_pending)

\* the fourth T-cycle of a delay loads a TMA other than 0 and raises the latch
C8_Witness ==
    /\ last.call = "tick_cycle"
    /\ last.pre.overflow_cycles = 1
    /\ last.pre.tima = 0
    /\ ~last.pre.interrupt_pending
    /\ mem.timer.tima = 66
    /\ mem.timer.interrupt_pending

\* C9: a write to TIMA while the reload delay is running cancels the reload:
\* the delay counter is cleared, TIMA holds the written value and the latch
\* is not raised; with no delay running a T-cycle never raises the latch and
\* changes TIMA only by the increment of a falling edge, and no register
\* write raises the latch.
C9_TimaWriteCancels ==
    /\ (last.call = "write" /\ last.address = 65285 /\ last.pre.overflow_cycles > 0)
          => (/\ mem.timer.overflow_cycles = 0
              /\ read_8(mem, 65285) = last.value
              /\ mem.timer.interrupt_pending = last.pre.interrupt_pending)
    /\ (last.call = "tick_cycle" /\ last.pre.overflow_cycles = 0)
          => (/\ mem.timer.interrupt_pending = last.pre.interrupt_pending
              /\ mem.timer.tima \in {last.pre.tima, (last.pre.tima + 1) % 256})
    /\ last.call = "write"
          => mem.timer.interrupt_pending = last.pre.interrupt_pending

\* TIMA written with a value other than TMA while a delay is running
C9_Witness ==
    /\ last.call = "write"
    /\ last.address = 65285
    /\ last.pre.overflow_cycles > 0
    /\ last.value # mem.timer.tma
    /\ ~mem.timer.interrupt_pending

\* C10: after a write of any value to DIV (0xFF04) a read of DIV returns 0
\* and the whole 16-bit internal counter is 0.
C10_DivReset ==
    (last.call = "write" /\ last.address = 65284)
        => (/\ read_8(mem, 65284) = 0
            /\ mem.timer.internal_counter = 0)

\* DIV written with a non-zero value while both bytes of the counter are non-zero
C10_Witness ==
    /\ last.call = "write"
    /\ last.address = 65284
    /\ last.value # 0
    /\ last.pre.internal_counter \div 256 # 0
    /\ last.pre.internal_counter % 256 # 0

----------------------------------------------------------------------------
(* Properties of the peripherals under the driver loop and of the bus.     *)

\* C11: in the driver loop the timer tick that follows a CPU step reporting
\* c cycles advances the 16-bit internal counter by exactly c modulo 2^16,
\* one tick per reported T-cycle.
C11_CounterAdvance ==
    last.call = "tick" =>
        mem.timer.internal_counter
            = (last.pre.m.timer.internal_counter + last.ret) % 65536

\* C12: after Memory::new followed by init_post_boot_state the timer's
\* internal counter is 0xABCC and DIV reads 0xAB, TIMA, TMA and TAC read
\* 0x00, 0x00 and 0xF8, and the timer interrupt latch is not raised; the
\* machine the driver starts from carries that counter.
C12_PostBootTimer ==
    (last.call = "none" /\ phase = "step") =>
        \A m \in {init_post_boot_state(MemoryNew(mem.rom))} :
            /\ m.timer.internal_counter = 43980
            /\ read_8(m, 65284) = 171
            /\ read_8(m, 65285) = 0
            /\ read_8(m, 65286) = 0
            /\ read_8(m, 65287) = 248
            /\ ~m.timer.interrupt_pending
            /\ mem.timer.internal_counter = 43980

----------------------------------------------------------------------------
(* Properties of the bus and the I/O registers (SpecBus).                  *)

C14_VramGate ==
    (last.call = "write" /\ last.address \in 32768..40959) =>
        IF read_8(last.pre, 65345) % 4 = 3
        THEN read_8(mem, last.address) = read_8(last.pre, last.address)
        ELSE read_8(mem, last.address) = last.value


(* Properties of the joypad and the serial port (SpecIo). *)

\* C15: after any sequence of press, release and write calls the joypad
\* register has bits 6 and 7 set, bits 4-5 as last written, and low-nibble
\* bit k equal to 0 exactly when a selected group (bit 4 = 0: directions,
\* bit 5 = 0: buttons) has its button on bit k pressed; and from a new joypad,
\* write 0x20 then press A reads 0xEE, and a following write 0x10 reads 0xDF.
C15_RegisterFunction ==
    phase = "joypad" =>
        \A j \in {mem.joypad} :
            /\ Bit(j.register, 7) = 1 /\ Bit(j.register, 6) = 1
            /\ last.call = "write" => BitAnd(j.register, 48) = BitAnd(last.value, 48)
            /\ last.call \in {"press", "release"} =>
                   BitAnd(j.register, 48) = BitAnd(last.pre.joypad.register, 48)
            /\ \A k \in 0..3 :
                   Bit(j.register, k) = 0 <=>
                       \/ Bit(j.register, 4) = 0 /\ j.buttons[DirectionKeys[k + 1]]
                       \/ Bit(j.register, 5) = 0 /\ j.buttons[ButtonKeys[k + 1]]
            /\ (/\ last.call = "press" /\ last.button = "A"
                /\ last.pre.joypad = joypad_write(JoypadNew, 32)) => j.register = 238
            /\ (/\ last.call = "write" /\ last.value = 16
                /\ last.pre.joypad = press(joypad_write(JoypadNew, 32), "A")) => j.register = 223


\* C16: through the bus, a write to 0xFF00 changes only bits 4-5 of P1, and
\* every bus read of 0xFF00 returns a value with bits 6 and 7 set whose low
\* nibble has bit k clear exactly when a selected group has its button on
\* bit k pressed in the joypad.
C16_BusP1 ==
    phase = "bus" =>
        \A p1 \in {read_8(mem, 65280)} :
            /\ (last.call = "write" /\ last.address = 65280) =>
                   /\ BitAnd(p1, 48) = BitAnd(last.value, 48)
                   /\ BitAnd(p1, 192) = BitAnd(read_8(last.pre, 65280), 192)
            /\ Bit(p1, 7) = 1 /\ Bit(p1, 6) = 1
            /\ \A k \in 0..3 :
                   Bit(p1, k) = 0 <=>
                       \/ Bit(p1, 4) = 0 /\ mem.joypad.buttons[DirectionKeys[k + 1]]
                       \/ Bit(p1, 5) = 0 /\ mem.joypad.buttons[ButtonKeys[k + 1]]


\* C17: a joypad call raises the interrupt latch if and only if it is
\* press(b) with b released before the call and b's group selected in P1
\* (bit 4 = 0 for a direction, bit 5 = 0 for a button); a press of a pressed
\* button or of an unselected group, a release and a P1 write never raise it.
C17_LatchOnPress ==
    (phase = "joypad" /\ last.call # "none" /\ ~last.pre.joypad.interrupt_requested) =>
        (mem.joypad.interrupt_requested <=>
            /\ last.call = "press"
            /\ ~last.pre.joypad.buttons[last.button]
            /\ IF last.button \in {"Up", "Down", "Left", "Right"}
               THEN Bit(last.pre.joypad.register, 4) = 0
               ELSE Bit(last.pre.joypad.register, 5) = 0)

C17_PressRaises ==
    /\ phase = "joypad" /\ last.call = "press" /\ last.button = "Start"
    /\ last.pre.joypad.register = 223
    /\ ~last.pre.joypad.buttons["Start"] /\ last.pre.joypad.buttons["Down"]
    /\ ~last.pre.joypad.interrupt_requested
    /\ mem.joypad.interrupt_requested


C21_RomBank ==
    /\ mem.current_rom_bank \in 1..31
    /\ (phase \in {"bus", "decode"} /\ last.call = "write") =>
           /\ last.address \in 8192..16383 =>
                  mem.current_rom_bank =
                      IF BitAnd(last.value, 31) = 0 THEN 1 ELSE BitAnd(last.value, 31)
           /\ last.address \in (0..8191) \cup (16384..32767) =>
                  /\ mem.current_rom_bank = last.pre.current_rom_bank
                  /\ mem.rom = last.pre.rom
                  /\ mem.main_memory = last.pre.main_memory

C21_ZeroRemapped ==
    /\ phase = "decode" /\ last.call = "write"
    /\ last.address = 16383 /\ last.value = 32
    /\ last.pre.current_rom_bank = 12
    /\ mem.current_rom_bank = 1


\* C22: for every bank selector value and every address in 0x4000-0x7FFF a
\* bus read returns the byte of the cartridge at bank * 0x4000 + (address -
\* 0x4000) when that offset lies inside the ROM buffer (ROM_BUFFER_LEN bytes,
\* the image followed by zeros), and 0xFF when it lies beyond it.
C22_BankedRead ==
    phase \in {"bus", "decode"} =>
        \A address \in {16384, 16385, 24576, 32766, 32767} :
            \A offset \in {mem.current_rom_bank * 16384 + (address - 16384)} :
                /\ mem.current_rom_bank \in 1..31
                /\ read_8(mem, address) =
                       IF offset < ROM_BUFFER_LEN
                       THEN Get(IF phase = "decode" THEN CartRom ELSE <<>>, offset)
                       ELSE 255

C22_BufferEnd ==
    /\ phase = "decode"
    /\ mem.current_rom_bank = 11
    /\ read_8(mem, 32766) = 177
    /\ read_8(mem, 32767) = 255
    /\ last.call = "write" /\ last.address = 12288


\* C23: a bus read of an I/O address that no component implements (0xFF03,
\* 0xFF08, 0xFF7F) returns 0xFF, whatever was written there before.
C23_UnimplementedIo ==
    phase \in {"bus", "decode"} =>
        \A address \in {65283, 65288, 65407} : read_8(mem, address) = 255


(* Properties of the PPU (SpecBus, SpecPpu). *)

\* C24: after every operation that changes LY (a PPU step ending HBlank or a
\* VBlank line, the wrap to 0, the reset when the LCD is switched off or
\* on), STAT bit 2 is set if and only if LY = LYC, and with no mode
\* interrupt enabled the operation raises the STAT interrupt latch only when
\* STAT bit 6 is set and LY = LYC.
C24_Coincidence ==
    (/\ phase = "bus" /\ last.call \in {"ppu_step", "write"}
     /\ mem.ppu.ly # last.pre.ppu.ly) =>
        /\ Bit(mem.ppu.stat, 2) = 1 <=> mem.ppu.ly = mem.ppu.lyc
        /\ (/\ mem.ppu.stat_interrupt /\ ~last.pre.ppu.stat_interrupt
            /\ BitAnd(last.pre.ppu.stat, 56) = 0) =>
               (Bit(mem.ppu.stat, 6) = 1 /\ mem.ppu.ly = mem.ppu.lyc)


\* C25: with the LCD on, no register writes and steps of at most 24 cycles,
\* after t accumulated cycles the PPU is on line (t div 456) mod 154; on a
\* visible line it is in mode 2 for the first 80 cycles of the line, in mode
\* 3 for the next 172 and in mode 0 for the last 204, on lines 144-153 it is
\* in mode 1, and the cycles left over are carried: after exactly 70224
\* cycles it is back at LY = 0 in mode 2 with nothing left over.
C25_Schedule ==
    phase = "ppu" =>
        \A pos \in {calls % 456}, line \in {(calls \div 456) % 154} :
            /\ mem.ppu.ly = line
            /\ mem.ppu.stat % 4 =
                   IF line >= 144 THEN 1
                   ELSE IF pos < 80 THEN 2 ELSE IF pos < 252 THEN 3 ELSE 0
            /\ mem.ppu.mode_cycles =
                   IF line >= 144 THEN pos
                   ELSE IF pos < 80 THEN pos ELSE IF pos < 252 THEN pos - 80 ELSE pos - 252

C25_FrameDone ==
    /\ phase = "ppu" /\ calls = 70224
    /\ mem.ppu.ly = 0 /\ mem.ppu.stat % 4 = 2 /\ mem.ppu.mode_cycles = 0
    /\ mem.ppu.vblank_interrupt


\* C26: when two sprites selected for a line both store a pixel (not
\* transparent, on the screen, not behind the background) at the same x,
\* the frame buffer holds there the colour of the one that comes earlier in
\* OAM order.
C26_SpriteOverlap ==
    (phase = "sprites" /\ last.call = "render_sprites_line") =>
        \A i \in sprites_on_line(mem.ppu, last.ly), j \in sprites_on_line(mem.ppu, last.ly) :
            i < j =>
                \A first \in {sprite_pixels(mem.ppu, last.bg, last.ly, i)},
                   second \in {sprite_pixels(mem.ppu, last.bg, last.ly, j)} :
                    \A x \in DOMAIN first \cap DOMAIN second : last.ret[x] = first[x]


(* Properties of instruction sequences (SpecPair). *)

\* C27: with the stack in writable RAM, PUSH rr followed immediately by POP
\* ss leaves SP at its original value and loads ss with the value rr had
\* (POP AF keeps the low nibble of F at 0); in particular PUSH rr, POP rr
\* leaves rr at its original value, for each pair BC, DE, HL, AF.
C27_PushPop ==
    (/\ phase = "pair" /\ calls = 2
     /\ last.opcodes[1] \in {197, 213, 229, 245}
     /\ last.opcodes[2] \in {193, 209, 225, 241}) =>
        \A rr \in {<<"BC", "DE", "HL", "AF">>[(last.opcodes[1] - 197) \div 16 + 1]},
           ss \in {<<"BC", "DE", "HL", "AF">>[(last.opcodes[2] - 193) \div 16 + 1]} :
            \A value \in {read_r16(last.first.c.registers, rr)} :
                /\ cpu.registers.sp = last.first.c.registers.sp
                /\ read_r16(cpu.registers, ss) =
                       IF ss = "AF" THEN value - (value % 16) ELSE value
                /\ cpu.registers.af % 16 = 0
                /\ ss = rr => read_r16(cpu.registers, rr) = value

C27_PopAfMasks ==
    /\ phase = "pair" /\ calls = 2
    /\ last.opcodes = <<197, 241>>
    /\ last.first.c.registers.bc = 19
    /\ last.first.c.registers.sp = 53250
    /\ cpu.registers.af = 16
    /\ cpu.registers.sp = 53250
    /\ read_16(mem, 53248) = 19


\* C28 as stated: for every A and every n, ADD A,n followed by SUB A,n
\* leaves A at its initial value and leaves the Z flag set.
C28_AddSubZeroSet ==
    (phase = "pair" /\ calls = 2 /\ last.opcodes = <<198, 214>>) =>
        /\ Aof([c |-> cpu]) = Aof(last.first)
        /\ Bit(Fof([c |-> cpu]), 7) = 1

\* C28 as amended: ADD A,n followed by SUB A,n leaves A at its initial
\* value; the Z flag is set exactly when that value is 0, and N is set.
C28_AddSubRestores ==
    (phase = "pair" /\ calls = 2 /\ last.opcodes = <<198, 214>>) =>
        /\ Aof([c |-> cpu]) = Aof(last.first)
        /\ Bit(Fof([c |-> cpu]), 7) = 1 <=> Aof(last.first) = 0
        /\ Bit(Fof([c |-> cpu]), 6) = 1

C28_WrappedAndBack ==
    /\ phase = "pair" /\ calls = 2 /\ last.opcodes = <<198, 214>>
    /\ Aof(last.first) = 128 /\ Imm8(last.first) = 255
    /\ Aof(last.pre) = 127
    /\ Aof([c |-> cpu]) = 128
    /\ Bit(Fof([c |-> cpu]), 7) = 0


(* Properties of the invalid opcodes (Spec). *)

C30_LcdEnable ==
    (phase = "bus" /\ last.call \in {"ppu_step", "write"}) =>
        /\ (/\ last.call = "write" /\ last.address = 65344
            /\ Bit(last.pre.ppu.lcdc, 7) = 1 /\ Bit(last.value, 7) = 0) =>
               (read_8(mem, 65348) = 0 /\ mem.ppu.mode_cycles = 0)
        /\ (Bit(last.pre.ppu.lcdc, 7) = 0 /\ Bit(mem.ppu.lcdc, 7) = 0) =>
               /\ mem.ppu.ly = 0
               /\ mem.ppu.vblank_interrupt => last.pre.ppu.vblank_interrupt
        /\ (/\ last.call = "write" /\ last.address = 65344
            /\ Bit(last.pre.ppu.lcdc, 7) = 0 /\ Bit(last.value, 7) = 1) =>
               /\ mem.ppu.ly = 0
               /\ mem.ppu.mode_cycles = 0
               /\ mem.ppu.stat % 4 = 2


(* Properties of the 16-bit address arithmetic (SpecWrap). *)

\* C31: 16-bit address and stack arithmetic wraps modulo 2^16 and never
\* traps: PUSH and CALL with SP in {0, 1}, POP, RET and RETI with SP in
\* {0xFFFE, 0xFFFF}, a 16-bit bus read at 0xFFFF and an operand fetch for an
\* instruction at PC = 0xFFFF all complete, with SP moved by 2 modulo 2^16.
C31_WrapsNeverTraps ==
    (last.call = "step" /\ last.opcode \in WrapOpcodes
     /\ phase \in {"wrap", "trapped"}) =>
        /\ ~last.trapped
        /\ last.opcode \in {197, 205} =>
               cpu.registers.sp = (last.pre.c.registers.sp + 65534) % 65536
        /\ last.opcode \in {193, 201, 217} =>
               cpu.registers.sp = (last.pre.c.registers.sp + 2) % 65536


(* Properties of the PPU at the ends of the modes (SpecLcd). *)

\* C32: the PPU step in which LY changes from 143 to 144 raises the VBlank
\* latch and resets the window internal line counter to 0; no other PPU
\* step and no register write changes the VBlank latch, whatever LY or mode
\* transition it makes.
C32_VBlankLatch ==
    (phase = "lcd" /\ last.call \in {"ppu_step", "write"}) =>
        IF last.call = "ppu_step" /\ last.pre.ly = 143 /\ mem.ppu.ly = 144
        THEN /\ mem.ppu.vblank_interrupt
             /\ mem.ppu.window_line_counter = 0
             /\ mem.ppu.stat % 4 = 1
        ELSE mem.ppu.vblank_interrupt = last.pre.vblank_interrupt

C32_FrameEnd ==
    /\ phase = "lcd" /\ last.call = "ppu_step"
    /\ last.pre.ly = 143 /\ mem.ppu.ly = 144
    /\ ~last.pre.vblank_interrupt
    /\ last.pre.window_line_counter = 144
    /\ mem.ppu.vblank_interrupt
    /\ mem.ppu.window_line_counter = 0


\* C33: an operation on the PPU (a step or a register write) that leaves the
\* mode of STAT different from before raises the STAT interrupt latch when
\* the enable bit of the new mode is set in STAT (bit 3 for HBlank, bit 4
\* for VBlank, bit 5 for OAM scan); with the LYC enable (bit 6) clear the
\* latch is raised in no other case: not on entering mode 3, not with the
\* enable bit clear, not when the mode is set to the value it already has.
C33_ModeInterrupt ==
    (phase = "lcd" /\ last.call \in {"ppu_step", "write"}) =>
        \A mode \in {mem.ppu.stat % 4} :
            IF /\ mode # last.pre.stat % 4
               /\ \/ mode = 0 /\ Bit(mem.ppu.stat, 3) = 1
                  \/ mode = 1 /\ Bit(mem.ppu.stat, 4) = 1
                  \/ mode = 2 /\ Bit(mem.ppu.stat, 5) = 1
            THEN mem.ppu.stat_interrupt
            ELSE Bit(mem.ppu.stat, 6) = 0 =>
                     mem.ppu.stat_interrupt = last.pre.stat_interrupt

C33_EnterHBlank ==
    /\ phase = "lcd" /\ last.call = "ppu_step"
    /\ last.pre.stat % 4 = 3 /\ mem.ppu.stat % 4 = 0
    /\ Bit(mem.ppu.stat, 3) = 1
    /\ ~last.pre.stat_interrupt
    /\ mem.ppu.stat_interrupt


(* Properties of HALT and of the interrupt sampling (Spec). *)

\* C34: a halted CPU stays halted for as long as IE & IF & 0x1F = 0: a step
\* of a halted CPU with no bit 0-4 both enabled and requested returns 4 and
\* changes nothing in the CPU, and a handle_interrupts call on a halted CPU
\* with no such bit after the latches are merged into IF leaves it halted
\* with all registers unchanged, regardless of bits 5-7 of IE and IF.
C34_HaltedStays ==
    /\ (/\ last.call = "step" /\ last.pre.c.halted
        /\ BitAnd(BitAnd(read_8(last.pre.m, 65535), read_8(last.pre.m, 65295)), 31) = 0) =>
           /\ last.ret = 4
           /\ cpu.halted
           /\ cpu.registers = last.pre.c.registers
    /\ (last.call = "handle_interrupts" /\ last.pre.c.halted) =>
           \A m1 \in {sync_flags(last.pre.m)} :
               BitAnd(BitAnd(read_8(m1, 65535), read_8(m1, 65295)), 31) = 0 =>
                   /\ cpu.halted
                   /\ cpu.registers = last.pre.c.registers


(* Properties of the cycle accounting (Spec). *)

\* C35: for a CB-prefixed instruction the cycles returned by step are the
\* OPCODE_DURATION_CB entry of the sub-opcode executed, the byte that
\* follows 0xCB: 16 when its operand is (HL) and 8 when it is a register,
\* whatever bytes follow the instruction.
C35_CbCycles ==
    (last.call = "step" /\ last.opcode = 203) =>
        \A cb_opcode \in {read_8(last.pre.m, (last.pre.c.registers.pc + 1) % 65536)} :
            /\ last.ret = OPCODE_DURATION_CB[cb_opcode + 1]
            /\ last.ret = IF cb_opcode % 8 = 6 THEN 16 ELSE 8


(* Properties of the timer's edge detector (SpecTimer). *)

\* C36: TIMA increments exactly once on each falling edge (1 to 0) of the
\* AND of the TAC enable bit with the selected internal-counter bit (bit 9,
\* 3, 5, 7 for TAC[1:0] = 0, 1, 2, 3), whether the edge is caused by a
\* counter tick, a DIV write or a TAC write, and never otherwise (the reload
\* from TMA at the end of the overflow delay is not an increment); with the
\* enable bit clear, ticking never increments TIMA.
C36_FallingEdge ==
    (\/ last.call = "tick_cycle"
     \/ last.call = "write" /\ last.address \in {65284, 65287}) =>
        LET t == mem.timer
            pre == last.pre
            selected == <<9, 3, 5, 7>>[(pre.tac % 4) + 1]
            selected_after == <<9, 3, 5, 7>>[(t.tac % 4) + 1]
            falling == /\ Bit(pre.tac, 2) = 1 /\ Bit(pre.internal_counter, selected) = 1
                       /\ ~(Bit(t.tac, 2) = 1 /\ Bit(t.internal_counter, selected_after) = 1)
            reload == last.call = "tick_cycle" /\ pre.overflow_cycles = 1
        IN  /\ falling => t.tima = (pre.tima + 1) % 256
            /\ (~falling /\ ~reload) => t.tima = pre.tima
            /\ (last.call = "tick_cycle" /\ Bit(pre.tac, 2) = 0 /\ ~reload) =>
                   t.tima = pre.tima


\* C37: the window internal line counter increases by exactly 1 in the step
\* that renders a scanline on which window pixels are drawn (LCDC bits 0 and
\* 5 set, LY >= WY and WX - 7 < 160), is reset by the step that ends the
\* frame, and is unchanged by every other step and register write; so it
\* counts the lines that drew window pixels and is not LY - WY.
C37_WindowCounter ==
    (phase = "lcd" /\ last.call \in {"ppu_step", "write"}) =>
        LET p == mem.ppu
            rendered == /\ last.call = "ppu_step"
                        /\ last.pre.stat % 4 = 3 /\ p.stat % 4 = 0
            drew == /\ rendered
                    /\ Bit(p.lcdc, 0) = 1 /\ Bit(p.lcdc, 5) = 1
                    /\ p.ly >= p.wy /\ p.wx - 7 < 160
        IN  IF drew
            THEN p.window_line_counter = (last.pre.window_line_counter + 1) % 256
            ELSE IF last.call = "ppu_step" /\ last.pre.ly = 143 /\ p.ly = 144
            THEN p.window_line_counter = 0
            ELSE p.window_line_counter = last.pre.window_line_counter

C37_EnabledLate ==
    /\ phase = "lcd" /\ last.call = "ppu_step"
    /\ last.pre.stat % 4 = 3 /\ mem.ppu.stat % 4 = 0
    /\ mem.ppu.ly = 143 /\ mem.ppu.wy = 0 /\ mem.ppu.wx = 7
    /\ Bit(mem.ppu.lcdc, 5) = 1
    /\ last.pre.window_line_counter = 0
    /\ mem.ppu.window_line_counter = 1


\* C38: cycle accounting is consistent: every step adds the value it returns
\* to the CPU's cumulative cycle counter (the 4 cycles of a halted step
\* included), every handle_interrupts call adds 20 when it services an
\* interrupt and nothing otherwise, and nothing else changes the counter.
C38_CycleAccounting ==
    /\ last.call = "step" => cpu.cycles = last.pre.c.cycles + last.ret
    /\ last.call = "handle_interrupts" =>
           cpu.cycles = last.pre.c.cycles
                        + (IF last.pre.c.registers.ime = 1 /\ cpu.registers.ime = 0
                           THEN 20 ELSE 0)
    /\ last.call = "tick" => cpu.cycles = last.pre.c.cycles


C40_LyRange ==
    phase = "lcd" =>
        /\ mem.ppu.ly \in 0..153
        /\ Bit(mem.ppu.lcdc, 7) = 1 =>
               (mem.ppu.stat % 4 = 1 <=> mem.ppu.ly \in 144..153)
        /\ (last.call = "write" /\ last.address = 65348) => mem.ppu = last.pre

C40_LyWriteIgnored ==
    /\ phase = "lcd" /\ last.call = "write" /\ last.address = 65348
    /\ last.value = 77
    /\ last.pre.ly = 153 /\ mem.ppu.ly = 153
    /\ Bit(mem.ppu.lcdc, 7) = 1 /\ mem.ppu.stat % 4 = 1
    /\ read_8(mem, 65348) = 153

====
